---- MODULE Spec2Model ----
(***************************************************************************)
(* AnySound-Sequencer: the Standard MIDI File codec of src/src/midi.ts     *)
(* (MidiParser, MidiWriter, MidiConverter), the offline renderer of        *)
(* src/src/main.ts (AudioManager.renderMixToAudioBuffer), the WAV encoder  *)
(* of src/src/wav.worker.ts and Sequencer.exportWav, which runs the two.   *)
(*                                                                         *)
(* A Uint8Array is a sequence of integers 0..255, indexed from 0 by At.    *)
(* A read past the end of a Uint8Array yields the value `undefined`.       *)
(* Beat positions (floats in the source) are rationals num/BeatDen;        *)
(* seconds and sample values are rationals Rat(num, den) in lowest terms.  *)
(***************************************************************************)
EXTENDS Integers, Sequences, FiniteSets, TLC

VARIABLES
    pc,               \* position of the running operation chain
    value,            \* argument of writeVariableLength
    vlq,              \* bytes returned by writeVariableLength
    decoded,          \* {value, bytesRead} returned by readVariableLength
    notes,            \* sequencer notes handed to sequencerToMidi
    beats,            \* sequencer beats handed to sequencerToMidi
    bpm,              \* bpm handed to sequencerToMidi
    ticksPerQuarter,  \* ticksPerQuarter handed to sequencerToMidi
    midiFile,         \* a MidiFile structure (built or given)
    data,             \* the bytes of a file (MidiWriter.write output / parser input)
    logical,          \* the events the bytes of an imported file encode
    parsed,           \* what MidiParser.parse returned, or Thrown
    result,           \* what MidiConverter.midiToSequencer returned
    bpms,             \* params.bpms: beat position -> bpm
    playbackSpeed,    \* params.playbackSpeed
    startBeat,        \* arguments of beatRangeToSeconds
    lengthBeats,
    seconds,          \* {startSec, endSec, durationSec} of beatRangeToSeconds
    noteInfos,        \* the renderer's NoteInfo list
    beatInfos,        \* the renderer's BeatInfo list
    totalSamples,     \* length of each output buffer
    blockSize,        \* samples mixed per block
    blockStart,       \* first sample of the next block to mix
    outputs,          \* per sample, the contributions added to it, in order
    request,          \* the encode message posted to the WAV worker
    posted,           \* the messages the WAV worker has posted, in order
    bpmsOrder,        \* the keys of this.bpms in insertion order
    parser,           \* MidiParser.parse in progress: cursors, running status, events
    samples,          \* the sample assigned to each melody track and beat track
    params,           \* the argument of the running renderMixToAudioBuffer
    caller            \* exportWav: dialog updates, messages handled, downloads

vars == <<pc, value, vlq, decoded, notes, beats, bpm, ticksPerQuarter,
          midiFile, data, logical, parsed, result,
          bpms, playbackSpeed, startBeat, lengthBeats, seconds,
          noteInfos, beatInfos, totalSamples, blockSize, blockStart, outputs,
          request, posted, bpmsOrder, parser, samples, params, caller>>

vlqVars == <<value, vlq, decoded>>

inputVars == <<notes, beats, bpm, ticksPerQuarter>>

midiVars == <<midiFile, data, logical, parsed, result>>

tempoVars == <<bpms, bpmsOrder, playbackSpeed, startBeat, lengthBeats, seconds>>

mixVars == <<noteInfos, beatInfos, totalSamples, blockSize, blockStart, outputs>>

wavVars == <<request, posted>>

exportVars == <<samples, params, caller>>

----------------------------------------------------------------------------
(* JavaScript values *)

\* data[pos] with pos outside the array
undefined == -1

\* parse() left by an exception: no MidiFile is returned
Thrown == [thrown |-> TRUE]

None == [none |-> TRUE]

\* data[pos], 0-based
At(d, pos) == IF pos >= 0 /\ pos < Len(d) THEN d[pos + 1] ELSE undefined

\* Uint8Array.prototype.slice(from, to) for 0 <= from: clamps at the end
Slice(d, from, to) ==
    LET hi == IF to < Len(d) THEN to ELSE Len(d)
    IN  IF from >= hi THEN <<>> ELSE SubSeq(d, from + 1, hi)

\* ToInt32 of an array read used as an operand of &, |, <<: undefined is 0
ToInt(b) == IF b = undefined THEN 0 ELSE b

Pow128(k) == IF k = 0 THEN 1 ELSE IF k = 1 THEN 128 ELSE IF k = 2 THEN 16384
             ELSE IF k = 3 THEN 2097152 ELSE 268435456

Range(s) == {s[i] : i \in 1..Len(s)}

Count(x, s) == Cardinality({i \in 1..Len(s) : s[i] = x})

\* two sequences hold the same multiset of elements
SameBag(s, t) == \A x \in Range(s) \cup Range(t) : Count(x, s) = Count(x, t)

RECURSIVE GCD(_, _)
GCD(a, b) == IF b = 0 THEN a ELSE GCD(b, a % b)

Abs(x) == IF x < 0 THEN -x ELSE x

\* the number num/den (den # 0) in lowest terms, den > 0
Rat(num, den) ==
    LET g == GCD(Abs(num), Abs(den))
        sg == IF den < 0 THEN -1 ELSE 1
    IN  [num |-> sg * (num \div g), den |-> sg * (den \div g)]

RatAdd(a, b) == Rat(a.num * b.den + b.num * a.den, a.den * b.den)

RatSub(a, b) == Rat(a.num * b.den - b.num * a.den, a.den * b.den)

RatMul(a, b) == Rat(a.num * b.num, a.den * b.den)

RatLE(a, b) == a.num * b.den <= b.num * a.den

RatMax(a, b) == IF RatLE(a, b) THEN b ELSE a

Zero == Rat(0, 1)

\* the variables of the renderer and of the WAV worker before either runs
TempoIdle ==
    /\ bpms = <<>> /\ bpmsOrder = <<>> /\ playbackSpeed = Rat(1, 1)
    /\ startBeat = 0 /\ lengthBeats = 0 /\ seconds = None

MixIdle ==
    /\ noteInfos = <<>> /\ beatInfos = <<>> /\ totalSamples = 0
    /\ blockSize = 16384 /\ blockStart = 0 /\ outputs = <<>>

WavIdle == request = None /\ posted = <<>>

ParserIdle == parser = None

ExportIdle == samples = None /\ params = None /\ caller = None

----------------------------------------------------------------------------
(* Variable-length quantities *)

\* the reader stops after this many bytes
MaxVlqBytes == 4

RECURSIVE readVariableLengthLoop(_, _, _, _)
readVariableLengthLoop(d, pos, val, bytesRead) ==
    IF bytesRead < MaxVlqBytes
    THEN LET byte == ToInt(At(d, pos + bytesRead))
             v    == val * 128 + (byte % 128)
         IN  IF (byte \div 128) % 2 = 0
             THEN [value |-> v, bytesRead |-> bytesRead + 1]
             ELSE readVariableLengthLoop(d, pos, v, bytesRead + 1)
    ELSE [value |-> val, bytesRead |-> bytesRead]

\* a reader that gives up one byte early
readVariableLengthShort(d, pos) ==
    LET r == readVariableLengthLoop(d, pos, 0, 0)
    IN  IF r.bytesRead = MaxVlqBytes
        THEN [value |-> r.value \div 128, bytesRead |-> MaxVlqBytes - 1]
        ELSE r

readVariableLength(d, pos) == readVariableLengthLoop(d, pos, 0, 0)

RECURSIVE writeVariableLengthLoop(_, _)
writeVariableLengthLoop(val, bytes) ==
    IF val > 127
    THEN LET v == val \div 128
         IN  writeVariableLengthLoop(v, <<(v % 128) + 128>> \o bytes)
    ELSE bytes

\* an encoder that tests value >= 0x7F and so spends two bytes on 127
writeVariableLengthEager(val) ==
    IF val = 127 THEN <<128, 127>> ELSE writeVariableLengthLoop(val, <<val % 128>>)

writeVariableLength(val) == writeVariableLengthLoop(val, <<val % 128>>)

----------------------------------------------------------------------------
(* MidiWriter *)

\* a | b on non-negative integers
RECURSIVE BitOr(_, _)
BitOr(a, b) ==
    IF a = 0 THEN b
    ELSE IF b = 0 THEN a
    ELSE 2 * BitOr(a \div 2, b \div 2) + (IF a % 2 = 1 \/ b % 2 = 1 THEN 1 ELSE 0)

\* event.field of an object that may lack the field
Get(e, f) == IF f \in DOMAIN e THEN e[f] ELSE undefined

\* x || 0
OrZero(x) == IF x = undefined THEN 0 ELSE x

\* a store into a Uint8Array keeps the low eight bits
ToUint8(x) == x % 256

\* "MThd", "MTrk" as char codes
MThd == <<77, 84, 104, 100>>
MTrk == <<77, 84, 114, 107>>

writeUint16(v) == <<(v \div 256) % 256, v % 256>>

writeUint32(v) == <<(v \div 16777216) % 256, (v \div 65536) % 256, (v \div 256) % 256, v % 256>>

createChunk(type, d) == type \o writeUint32(Len(d)) \o d

\* a writer that gives NoteOff the NoteOn status byte 0x90
writeEventDataOffAsOn(event) ==
    IF event.type = "noteOn" THEN
        << ToUint8(BitOr(144, OrZero(Get(event, "channel")))),
           ToUint8(OrZero(Get(event, "note"))),
           ToUint8(OrZero(Get(event, "velocity"))) >>
    ELSE IF event.type = "noteOff" THEN
        << ToUint8(BitOr(144, OrZero(Get(event, "channel")))),
           ToUint8(OrZero(Get(event, "note"))),
           ToUint8(OrZero(Get(event, "velocity"))) >>
    ELSE IF event.type = "controller" THEN
        << ToUint8(BitOr(176, OrZero(Get(event, "channel")))),
           ToUint8(OrZero(Get(event, "controller"))),
           ToUint8(OrZero(Get(event, "value"))) >>
    ELSE IF event.type = "meta" THEN
        LET payload == IF "data" \in DOMAIN event THEN event.data ELSE <<>>
        IN  <<255, ToUint8(OrZero(Get(event, "metaType")))>>
                \o writeVariableLength(Len(payload)) \o payload
    ELSE <<>>

\* the bytes writeTrack pushes for one event, after its delta time
writeEventData(event) ==
    IF event.type = "noteOn" THEN
        << ToUint8(BitOr(144, OrZero(Get(event, "channel")))),
           ToUint8(OrZero(Get(event, "note"))),
           ToUint8(OrZero(Get(event, "velocity"))) >>
    ELSE IF event.type = "noteOff" THEN
        << ToUint8(BitOr(128, OrZero(Get(event, "channel")))),
           ToUint8(OrZero(Get(event, "note"))),
           ToUint8(OrZero(Get(event, "velocity"))) >>
    ELSE IF event.type = "controller" THEN
        << ToUint8(BitOr(176, OrZero(Get(event, "channel")))),
           ToUint8(OrZero(Get(event, "controller"))),
           ToUint8(OrZero(Get(event, "value"))) >>
    ELSE IF event.type = "meta" THEN
        LET payload == IF "data" \in DOMAIN event THEN event.data ELSE <<>>
        IN  <<255, ToUint8(OrZero(Get(event, "metaType")))>>
                \o writeVariableLength(Len(payload)) \o payload
    ELSE <<>>

RECURSIVE writeTrackLoop(_, _)
writeTrackLoop(events, i) ==
    IF i > Len(events) THEN <<>>
    ELSE writeVariableLength(events[i].deltaTime) \o writeEventData(events[i])
             \o writeTrackLoop(events, i + 1)

writeTrack(track) == writeTrackLoop(track.events, 1)

RECURSIVE writeTrackChunks(_, _)
writeTrackChunks(tracks, i) ==
    IF i > Len(tracks) THEN <<>>
    ELSE createChunk(MTrk, writeTrack(tracks[i])) \o writeTrackChunks(tracks, i + 1)

write(f) ==
    createChunk(MThd, writeUint16(f.format) \o writeUint16(Len(f.tracks))
                          \o writeUint16(f.ticksPerQuarter))
        \o writeTrackChunks(f.tracks, 1)

----------------------------------------------------------------------------
(* MidiParser *)

readUint16(d, offset) == ToInt(At(d, offset)) * 256 + ToInt(At(d, offset + 1))

\* The four bytes at pos as an unsigned integer.  A value of 2^30 or more
\* stands as 2^30: it is used only as a slice bound and a cursor increment,
\* and no file of the model is that long.
readUint32(d, pos) ==
    IF ToInt(At(d, pos)) >= 64 THEN 1073741824
    ELSE ToInt(At(d, pos)) * 16777216 + ToInt(At(d, pos + 1)) * 65536
             + ToInt(At(d, pos + 2)) * 256 + ToInt(At(d, pos + 3))

\* a chunk reader that leaves the file cursor where it was
readChunkPeek(d, pos) ==
    LET length == readUint32(d, pos + 4)
    IN  [type   |-> Slice(d, pos, pos + 4),
         length |-> length,
         data   |-> Slice(d, pos + 8, pos + 8 + length),
         pos    |-> pos]

\* readChunk at cursor pos: the chunk and the cursor after it
readChunk(d, pos) ==
    LET length == readUint32(d, pos + 4)
    IN  [type   |-> Slice(d, pos, pos + 4),
         length |-> length,
         data   |-> Slice(d, pos + 8, pos + 8 + length),
         pos    |-> pos + 8 + length]

\* an unknown event that leaves the cursor on the byte after the status
skipUnknownNone(pos) == pos

\* event.type = 'unknown'; pos++
skipUnknown(pos) == pos + 1

\* The event parseTrack builds for an effective status, data bytes from pos on:
\* the event, the cursor after it, the running status; thrown when
\* console.warn dereferences an undefined status.
dispatchEvent(d, dt, status, pos, rs) ==
    IF status >= 128 /\ status <= 143 THEN
        [thrown |-> FALSE, pos |-> pos + 2, runningStatus |-> rs,
         event |-> [deltaTime |-> dt, type |-> "noteOff", channel |-> status % 16,
                    note |-> At(d, pos), velocity |-> At(d, pos + 1)]]
    ELSE IF status >= 144 /\ status <= 159 THEN
        [thrown |-> FALSE, pos |-> pos + 2, runningStatus |-> rs,
         event |-> [deltaTime |-> dt,
                    type |-> IF At(d, pos + 1) = 0 THEN "noteOff" ELSE "noteOn",
                    channel |-> status % 16,
                    note |-> At(d, pos), velocity |-> At(d, pos + 1)]]
    ELSE IF status >= 176 /\ status <= 191 THEN
        [thrown |-> FALSE, pos |-> pos + 2, runningStatus |-> rs,
         event |-> [deltaTime |-> dt, type |-> "controller", channel |-> status % 16,
                    controller |-> At(d, pos), value |-> At(d, pos + 1)]]
    ELSE IF status = 255 THEN
        LET length == readVariableLength(d, pos + 1)
            from   == pos + 1 + length.bytesRead
        IN  [thrown |-> FALSE, pos |-> from + length.value, runningStatus |-> rs,
             event |-> [deltaTime |-> dt, type |-> "meta", metaType |-> At(d, pos),
                        data |-> Slice(d, from, from + length.value)]]
    ELSE IF status >= 192 /\ status <= 207 THEN
        [thrown |-> FALSE, pos |-> pos + 1, runningStatus |-> rs,
         event |-> [deltaTime |-> dt, type |-> "programChange",
                    channel |-> status % 16, program |-> At(d, pos)]]
    ELSE IF status >= 224 /\ status <= 239 THEN
        [thrown |-> FALSE, pos |-> pos + 2, runningStatus |-> rs,
         event |-> [deltaTime |-> dt, type |-> "controller", channel |-> status % 16,
                    value |-> ToInt(At(d, pos + 1)) * 128 + ToInt(At(d, pos))]]
    ELSE IF status = 240 \/ status = 247 THEN
        LET length == readVariableLength(d, pos)
            from   == pos + length.bytesRead
        IN  [thrown |-> FALSE, pos |-> from + length.value, runningStatus |-> rs,
             event |-> [deltaTime |-> dt, type |-> "sysex",
                        data |-> Slice(d, from, from + length.value)]]
    ELSE IF status = undefined THEN
        [thrown |-> TRUE]
    ELSE
        [thrown |-> FALSE, pos |-> skipUnknown(pos), runningStatus |-> rs,
         event |-> [deltaTime |-> dt, type |-> "unknown"]]

\* a parser that steps over the byte it found in place of a status byte
parseEventSkipping(d, pos0, runningStatus0) ==
    LET deltaTime == readVariableLength(d, pos0)
        pos1      == pos0 + deltaTime.bytesRead
        first     == At(d, pos1)
        running   == first # undefined /\ first < 128
    IN  dispatchEvent(d, deltaTime.value,
                      IF running THEN runningStatus0 ELSE first,
                      pos1 + 1,
                      IF running THEN runningStatus0 ELSE first)

\* One iteration of parseTrack's loop at cursor pos0: delta time, then the
\* status byte, or the running status when the byte there is below 0x80 (the
\* cursor then stays on it: it is the first data byte).
parseEvent(d, pos0, runningStatus0) ==
    LET deltaTime == readVariableLength(d, pos0)
        pos1      == pos0 + deltaTime.bytesRead
        first     == At(d, pos1)
        running   == first # undefined /\ first < 128
    IN  dispatchEvent(d, deltaTime.value,
                      IF running THEN runningStatus0 ELSE first,
                      IF running THEN pos1 ELSE pos1 + 1,
                      IF running THEN runningStatus0 ELSE first)

RECURSIVE parseTrackLoop(_, _, _, _)
parseTrackLoop(d, pos, runningStatus, events) ==
    IF pos < Len(d)
    THEN LET r == parseEvent(d, pos, runningStatus)
         IN  IF r.thrown THEN Thrown
             ELSE parseTrackLoop(d, r.pos, r.runningStatus, Append(events, r.event))
    ELSE [events |-> events]

parseTrack(d) == parseTrackLoop(d, 0, 0, <<>>)

RECURSIVE parseTracks(_, _, _, _)
parseTracks(d, pos, remaining, tracks) ==
    IF remaining = 0 THEN [thrown |-> FALSE, tracks |-> tracks]
    ELSE LET trackChunk == readChunk(d, pos)
         IN  IF trackChunk.type # MTrk THEN Thrown
             ELSE LET track == parseTrack(trackChunk.data)
                  IN  IF "thrown" \in DOMAIN track THEN Thrown
                      ELSE parseTracks(d, trackChunk.pos, remaining - 1,
                                       Append(tracks, track))

\* a parser that takes a header payload of any length
parseAnyHeaderLength(d) ==
    LET headerChunk == readChunk(d, 0)
    IN  IF headerChunk.type # MThd THEN Thrown
        ELSE LET r == parseTracks(d, headerChunk.pos,
                                  readUint16(headerChunk.data, 2), <<>>)
             IN  IF r.thrown THEN Thrown
                 ELSE [format          |-> readUint16(headerChunk.data, 0),
                       tracks          |-> r.tracks,
                       ticksPerQuarter |-> readUint16(headerChunk.data, 4)]

parse(d) ==
    LET headerChunk == readChunk(d, 0)
    IN  IF headerChunk.type # MThd THEN Thrown
        ELSE IF Len(headerChunk.data) # 6 THEN Thrown
        ELSE LET r == parseTracks(d, headerChunk.pos,
                                  readUint16(headerChunk.data, 2), <<>>)
             IN  IF r.thrown THEN Thrown
                 ELSE [format          |-> readUint16(headerChunk.data, 0),
                       tracks          |-> r.tracks,
                       ticksPerQuarter |-> readUint16(headerChunk.data, 4)]

----------------------------------------------------------------------------
(* MidiConverter *)

\* beat positions and lengths are multiples of 1/BeatDen of a beat
BeatDen == 4

\* Math.round(num / den) for num >= 0, den > 0 (halves round up)
Round(num, den) == (2 * num + den) \div (2 * den)

createTempoData(b) ==
    LET microsecondsPerQuarter == Round(60000000, b)
    IN  << (microsecondsPerQuarter \div 65536) % 256,
           (microsecondsPerQuarter \div 256) % 256,
           microsecondsPerQuarter % 256 >>

\* Math.round(60000000 / 0)
Infinity == [infinity |-> TRUE]

\* tempo data read with the bytes in little-endian order
extractBpmFromTempoDataLE(d) ==
    IF Len(d) # 3 THEN 120
    ELSE LET microsecondsPerQuarter == d[3] * 65536 + d[2] * 256 + d[1]
         IN  IF microsecondsPerQuarter = 0 THEN Infinity
             ELSE Round(60000000, microsecondsPerQuarter)

extractBpmFromTempoData(d) ==
    IF Len(d) # 3 THEN 120
    ELSE LET microsecondsPerQuarter == d[1] * 65536 + d[2] * 256 + d[3]
         IN  IF microsecondsPerQuarter = 0 THEN Infinity
             ELSE Round(60000000, microsecondsPerQuarter)

EndOfTrack == [deltaTime |-> 0, type |-> "meta", metaType |-> 47, data |-> <<>>]

\* Array.prototype.sort((a, b) => a.deltaTime - b.deltaTime): stable
RECURSIVE sortByTime(_)
sortByTime(events) ==
    IF events = <<>> THEN <<>>
    ELSE LET sorted == sortByTime(SubSeq(events, 1, Len(events) - 1))
             e      == events[Len(events)]
             k      == Cardinality({i \in 1..Len(sorted) :
                                        sorted[i].deltaTime <= e.deltaTime})
         IN  SubSeq(sorted, 1, k) \o <<e>> \o SubSeq(sorted, k + 1, Len(sorted))

\* an encoder that leaves the absolute times in place
deltaEncodeAbsolute(events) == events

\* absolute times to delta times
deltaEncode(events) ==
    [i \in 1..Len(events) |->
        [events[i] EXCEPT !.deltaTime =
            events[i].deltaTime - (IF i = 1 THEN 0 ELSE events[i - 1].deltaTime)]]

\* the NoteOn/NoteOff pairs of the notes of one track, in list order, at absolute ticks
RECURSIVE noteEvents(_, _, _)
noteEvents(ns, trackNumber, ticksPerBeat) ==
    IF ns = <<>> THEN <<>>
    ELSE LET note == Head(ns)
             startTicks == Round(note.start * ticksPerBeat, BeatDen)
             endTicks   == Round((note.start + note.length) * ticksPerBeat, BeatDen)
         IN  (IF note.track = trackNumber
              THEN << [deltaTime |-> startTicks, type |-> "noteOn", channel |-> note.track,
                       note |-> note.pitch, velocity |-> note.velocity],
                      [deltaTime |-> endTicks, type |-> "noteOff", channel |-> note.track,
                       note |-> note.pitch, velocity |-> 0] >>
              ELSE <<>>)
             \o noteEvents(Tail(ns), trackNumber, ticksPerBeat)

\* an exporter that gives every beat the percussion note 38
RECURSIVE beatEventsOneNote(_, _)
beatEventsOneNote(bs, ticksPerBeat) ==
    IF bs = <<>> THEN <<>>
    ELSE LET beat == Head(bs)
             startTicks == Round(beat.position * ticksPerBeat, BeatDen)
         IN  << [deltaTime |-> startTicks, type |-> "noteOn", channel |-> 9,
                 note |-> 38, velocity |-> beat.velocity],
                [deltaTime |-> startTicks + (ticksPerBeat \div 8), type |-> "noteOff",
                 channel |-> 9, note |-> 38, velocity |-> 0] >>
             \o beatEventsOneNote(Tail(bs), ticksPerBeat)

\* the NoteOn/NoteOff pairs of the beats on channel 9 (ticksPerBeat / 8 is
\* whole for the ticksPerQuarter values of the model)
RECURSIVE beatEvents(_, _)
beatEvents(bs, ticksPerBeat) ==
    IF bs = <<>> THEN <<>>
    ELSE LET beat == Head(bs)
             startTicks == Round(beat.position * ticksPerBeat, BeatDen)
             percussionNote == IF beat.track = 1 THEN 36 ELSE 38
         IN  << [deltaTime |-> startTicks, type |-> "noteOn", channel |-> 9,
                 note |-> percussionNote, velocity |-> beat.velocity],
                [deltaTime |-> startTicks + (ticksPerBeat \div 8), type |-> "noteOff",
                 channel |-> 9, note |-> percussionNote, velocity |-> 0] >>
             \o beatEvents(Tail(bs), ticksPerBeat)

\* track numbers sorted with (a, b) => b - a
RECURSIVE sortedTrackNumbersDescending(_)
sortedTrackNumbersDescending(S) ==
    IF S = {} THEN <<>>
    ELSE LET m == CHOOSE x \in S : \A y \in S : x >= y
         IN  <<m>> \o sortedTrackNumbersDescending(S \ {m})

\* Array.from(notesByTrack.keys()).sort((a, b) => a - b)
RECURSIVE sortedTrackNumbers(_)
sortedTrackNumbers(S) ==
    IF S = {} THEN <<>>
    ELSE LET m == CHOOSE x \in S : \A y \in S : x <= y
         IN  <<m>> \o sortedTrackNumbers(S \ {m})

sequencerToMidi(ns, bs, b, tpq) ==
    LET tempoTrack == [events |-> << [deltaTime |-> 0, type |-> "meta", metaType |-> 81,
                                      data |-> createTempoData(b)],
                                     EndOfTrack >>]
        trackNumbers == sortedTrackNumbers({ns[i].track : i \in 1..Len(ns)})
        noteTracks == [k \in 1..Len(trackNumbers) |->
                          [events |-> Append(deltaEncode(sortByTime(
                                          noteEvents(ns, trackNumbers[k], tpq))),
                                      EndOfTrack)]]
        beatTracks == IF Len(bs) > 0
                      THEN << [events |-> Append(deltaEncode(sortByTime(beatEvents(bs, tpq))),
                                                 EndOfTrack)] >>
                      ELSE <<>>
    IN  [format |-> 1, tracks |-> <<tempoTrack>> \o noteTracks \o beatTracks,
         ticksPerQuarter |-> tpq]

\* a beat position or length: num / den beats
Beats(num, den) == [num |-> num, den |-> den]

\* Math.max(0.1, currentBeats - noteInfo.start), both in ticks of a beat
noteLength(currentTicks, startTicks, ticksPerBeat) ==
    IF 10 * (currentTicks - startTicks) < ticksPerBeat
    THEN Beats(1, 10)
    ELSE Beats(currentTicks - startTicks, ticksPerBeat)

\* a walk that carries the open notes over from one track to the next
openTrackKeeping(st) == [st EXCEPT !.currentTicks = 0]

\* the walk's state at the start of a track
openTrack(st) == [st EXCEPT !.active = <<>>, !.currentTicks = 0]

\* a walk that takes every tempo event, noteOn seen or not
acceptsTempoAlways(st) == TRUE

\* if (!bpmConfirmed): a tempo event sets bpm until the first noteOn is seen
acceptsTempo(st) == ~st.bpmConfirmed

\* a close test that knows the noteOff type only
closesNoteByType(event) ==
    event.type = "noteOff" /\ Get(event, "note") # undefined

\* event.type === 'noteOff' || (event.type === 'noteOn' && event.velocity === 0),
\* with a note number
closesNote(event) ==
    /\ event.type = "noteOff" \/ (event.type = "noteOn" /\ Get(event, "velocity") = 0)
    /\ Get(event, "note") # undefined

\* one event of the walk of midiToSequencer; active maps <<channel, note>> to
\* the open note's {start, velocity}
convertEvent(st0, event, ticksPerBeat) ==
    LET currentTicks == st0.currentTicks + event.deltaTime
        st       == [st0 EXCEPT !.currentTicks = currentTicks]
        note     == Get(event, "note")
        velocity == Get(event, "velocity")
        channel  == OrZero(Get(event, "channel"))
        key      == <<channel, note>>
    IN  IF event.type = "meta" /\ Get(event, "metaType") = 81 /\ "data" \in DOMAIN event THEN
            IF acceptsTempo(st)
            THEN [st EXCEPT !.bpm = extractBpmFromTempoData(event.data)]
            ELSE st
        ELSE IF event.type = "noteOn" /\ note # undefined /\ velocity # undefined
                /\ velocity > 0 THEN
            [st EXCEPT !.bpmConfirmed = TRUE,
                       !.active = [k \in DOMAIN st.active \cup {key} |->
                                      IF k = key
                                      THEN [start |-> currentTicks, velocity |-> velocity]
                                      ELSE st.active[k]]]
        ELSE IF closesNote(event) THEN
            IF key \in DOMAIN st.active
            THEN LET noteInfo == st.active[key]
                     closed == [k \in DOMAIN st.active \ {key} |-> st.active[k]]
                 IN  IF channel = 9
                     THEN [st EXCEPT !.active = closed,
                               !.beats = Append(@,
                                   [track    |-> IF note = 36 THEN 1 ELSE 0,
                                    position |-> Beats(noteInfo.start, ticksPerBeat),
                                    velocity |-> noteInfo.velocity])]
                     ELSE [st EXCEPT !.active = closed,
                               !.notes = Append(@,
                                   [track    |-> channel,
                                    pitch    |-> note,
                                    start    |-> Beats(noteInfo.start, ticksPerBeat),
                                    length   |-> noteLength(currentTicks, noteInfo.start,
                                                            ticksPerBeat),
                                    velocity |-> noteInfo.velocity])]
            ELSE st
        ELSE IF event.type = "programChange" /\ Get(event, "program") # undefined THEN
            IF channel # 9 /\ (channel \notin DOMAIN st.instrumentCodes
                               \/ st.instrumentCodes[channel] = 0)
            THEN [st EXCEPT !.instrumentCodes =
                     [c \in DOMAIN st.instrumentCodes \cup {channel} |->
                         IF c = channel THEN event.program ELSE st.instrumentCodes[c]]]
            ELSE st
        ELSE IF event.type = "meta" /\ Get(event, "metaType") = 47 THEN
            IF currentTicks > st.detectedEndOfTrack
            THEN [st EXCEPT !.detectedEndOfTrack = currentTicks]
            ELSE st
        ELSE st

RECURSIVE convertEvents(_, _, _, _)
convertEvents(st, events, i, ticksPerBeat) ==
    IF i > Len(events) THEN st
    ELSE convertEvents(convertEvent(st, events[i], ticksPerBeat), events, i + 1,
                       ticksPerBeat)

RECURSIVE convertTracks(_, _, _, _)
convertTracks(st, tracks, t, ticksPerBeat) ==
    IF t > Len(tracks) THEN st
    ELSE convertTracks(convertEvents(openTrack(st), tracks[t].events, 1, ticksPerBeat),
                       tracks, t + 1, ticksPerBeat)

midiToSequencer(f) ==
    LET st == convertTracks([notes |-> <<>>, beats |-> <<>>, instrumentCodes |-> <<>>,
                             bpm |-> 120, bpmConfirmed |-> FALSE,
                             detectedEndOfTrack |-> 0,
                             active |-> <<>>, currentTicks |-> 0],
                            f.tracks, 1, f.ticksPerQuarter)
    IN  [notes |-> st.notes, beats |-> st.beats, instrumentCodes |-> st.instrumentCodes,
         bpm |-> st.bpm,
         gridSize |-> (st.detectedEndOfTrack + f.ticksPerQuarter - 1)
                          \div f.ticksPerQuarter]

----------------------------------------------------------------------------
(* Specification SpecVlq: encode a value, decode the bytes *)

\* each 7-bit group of an encoded value is drawn from these
VlqGroups == {0, 1, 64, 127}

\* values of every encoded length 1..4, with 0, 127, 128, 16383, 16384,
\* 2097151, 2097152 and 0x0FFFFFFF among them
VlqValues ==
    {a * Pow128(3) + b * Pow128(2) + c * Pow128(1) + e :
        a \in VlqGroups, b \in VlqGroups, c \in VlqGroups, e \in VlqGroups}

InitVlq ==
    /\ pc = "start"
    /\ value \in VlqValues
    /\ vlq = <<>> /\ decoded = None
    /\ notes = <<>> /\ beats = <<>> /\ bpm = 120 /\ ticksPerQuarter = 480
    /\ midiFile = None /\ data = <<>> /\ logical = None /\ parsed = None /\ result = None
    /\ TempoIdle /\ MixIdle /\ WavIdle /\ ParserIdle /\ ExportIdle

VlqEncode ==
    /\ pc = "start"
    /\ vlq' = writeVariableLength(value)
    /\ pc' = "encoded"
    /\ UNCHANGED <<value, decoded, inputVars, midiVars, tempoVars, mixVars, wavVars, parser, exportVars>>

VlqDecode ==
    /\ pc = "encoded"
    /\ decoded' = readVariableLength(vlq, 0)
    /\ pc' = "decoded"
    /\ UNCHANGED <<value, vlq, inputVars, midiVars, tempoVars, mixVars, wavVars, parser, exportVars>>

NextVlq == VlqEncode \/ VlqDecode

SpecVlq == InitVlq /\ [][NextVlq]_vars

----------------------------------------------------------------------------
(* C3, C4 *)

\* C3: decoding the bytes writeVariableLength made for n in [0, 0x0FFFFFFF]
\* returns value n and bytesRead equal to the number of bytes written.
VlqRoundTrip ==
    pc = "decoded" => /\ decoded.value = value
                      /\ decoded.bytesRead = Len(vlq)

VlqRoundTripWitness ==
    /\ pc = "decoded" /\ value = 268435455 /\ Len(vlq) = 4 /\ decoded.bytesRead = 4

\* the smallest k >= 1 with n < 128^k
MinVlqLen(n) == CHOOSE k \in 1..4 : n < Pow128(k) /\ (k = 1 \/ n >= Pow128(k - 1))

\* the big-endian value of the low seven bits of each byte
RECURSIVE GroupsValue(_)
GroupsValue(bytes) ==
    IF bytes = <<>> THEN 0
    ELSE GroupsValue(SubSeq(bytes, 1, Len(bytes) - 1)) * 128 + (bytes[Len(bytes)] % 128)

\* C4: writeVariableLength(n) emits the minimum number of bytes, groups in
\* big-endian order, high bit set on every byte but the last, clear on the last.
VlqCanonical ==
    pc = "encoded" =>
        /\ Len(vlq) = MinVlqLen(value)
        /\ GroupsValue(vlq) = value
        /\ \A i \in 1..(Len(vlq) - 1) : vlq[i] >= 128 /\ vlq[i] <= 255
        /\ vlq[Len(vlq)] >= 0 /\ vlq[Len(vlq)] < 128
        /\ (value = 0 => vlq = <<0>>)

VlqCanonicalWitness ==
    /\ pc = "encoded" /\ value = 16384 /\ vlq = <<129, 128, 0>>

----------------------------------------------------------------------------
(* The export/import chain: sequencerToMidi -> write -> parse ->           *)
(* midiToSequencer.  pc names what the chain holds: "input" (notes and     *)
(* beats), "file" (a MidiFile), "bytes", "parsed", "imported".             *)

\* exportMidi: MidiWriter.write(midiFile)
Write ==
    /\ pc = "file"
    /\ data' = write(midiFile)
    /\ pc' = "bytes"
    /\ UNCHANGED <<vlqVars, inputVars, midiFile, logical, parsed, result,
                   tempoVars, mixVars, wavVars, parser, exportVars>>

\* importMidiFromFile: new MidiParser(data).parse()
Parse ==
    /\ pc = "bytes"
    /\ parsed' = parse(data)
    /\ pc' = "parsed"
    /\ UNCHANGED <<vlqVars, inputVars, midiFile, data, logical, result,
                   tempoVars, mixVars, wavVars, parser, exportVars>>

\* exportMidi: MidiConverter.sequencerToMidi(this.notes, this.beats, this.bpm, 480)
SequencerToMidi ==
    /\ pc = "input"
    /\ midiFile' = sequencerToMidi(notes, beats, bpm, ticksPerQuarter)
    /\ pc' = "file"
    /\ UNCHANGED <<vlqVars, inputVars, data, logical, parsed, result,
                   tempoVars, mixVars, wavVars, parser, exportVars>>

\* importMidiFromFile: MidiConverter.midiToSequencer(midiFile), reached only
\* when parse() returned
MidiToSequencer ==
    /\ pc = "parsed"
    /\ parsed # Thrown
    /\ result' = midiToSequencer(parsed)
    /\ pc' = "imported"
    /\ UNCHANGED <<vlqVars, inputVars, midiFile, data, logical, parsed,
                   tempoVars, mixVars, wavVars, parser, exportVars>>

----------------------------------------------------------------------------
(* Specification SpecCodec: write a MidiFile of NoteOn, NoteOff, Controller *)
(* and Meta events, parse the bytes                                         *)

\* events per track, tracks per file
MaxEvents == 2
MaxTracks == 2

DeltaTimes == {0, 128, 268435455}

NoteOnEv(dt, ch, n, v) ==
    [deltaTime |-> dt, type |-> "noteOn", channel |-> ch, note |-> n, velocity |-> v]
NoteOffEv(dt, ch, n, v) ==
    [deltaTime |-> dt, type |-> "noteOff", channel |-> ch, note |-> n, velocity |-> v]
ControllerEv(dt, ch, c, v) ==
    [deltaTime |-> dt, type |-> "controller", channel |-> ch, controller |-> c, value |-> v]
MetaEv(dt, t, payload) ==
    [deltaTime |-> dt, type |-> "meta", metaType |-> t, data |-> payload]
ProgramChangeEv(dt, ch, p) ==
    [deltaTime |-> dt, type |-> "programChange", channel |-> ch, program |-> p]

CodecEvents ==
    UNION {
        { NoteOnEv(dt, 0, 0, 1), NoteOnEv(dt, 15, 127, 127),
          NoteOffEv(dt, 0, 0, 0), NoteOffEv(dt, 15, 127, 64),
          ControllerEv(dt, 0, 0, 0), ControllerEv(dt, 15, 127, 127),
          MetaEv(dt, 47, <<>>), MetaEv(dt, 81, <<7, 161, 32>>),
          MetaEv(dt, 127, <<255, 128, 0>>), MetaEv(dt, 0, <<0>>) }
        : dt \in DeltaTimes }

SeqsUpTo(S, k) == UNION {[1..n -> S] : n \in 0..k}

TracksOf(S, k) == {[events |-> es] : es \in SeqsUpTo(S, k)}

\* one track of up to MaxEvents events, or up to MaxTracks tracks of at most one
FilesOf(S, formats, divisions) ==
    {[format |-> f, tracks |-> ts, ticksPerQuarter |-> q] :
        f \in formats, q \in divisions,
        ts \in [1..1 -> TracksOf(S, MaxEvents)]
               \cup UNION {[1..n -> TracksOf(S, 1)] : n \in 0..MaxTracks}}

InitCodec ==
    /\ pc = "file"
    /\ midiFile \in FilesOf(CodecEvents, {0, 1}, {480}) \cup FilesOf({}, {65535}, {0, 65535})
    /\ value = 0 /\ vlq = <<>> /\ decoded = None
    /\ notes = <<>> /\ beats = <<>> /\ bpm = 120 /\ ticksPerQuarter = 480
    /\ data = <<>> /\ logical = None /\ parsed = None /\ result = None
    /\ TempoIdle /\ MixIdle /\ WavIdle /\ ParserIdle /\ ExportIdle

NextCodec == Write \/ Parse

SpecCodec == InitCodec /\ [][NextCodec]_vars

\* C2: for a MidiFile of NoteOn (velocity 1..127), NoteOff, Controller and Meta
\* events within the byte ranges, parse(write(f)) has the same format,
\* ticksPerQuarter, number of tracks and per track the same sequence of events.
WriteParseInverse ==
    pc = "parsed" =>
        /\ parsed # Thrown
        /\ parsed.format = midiFile.format
        /\ parsed.ticksPerQuarter = midiFile.ticksPerQuarter
        /\ Len(parsed.tracks) = Len(midiFile.tracks)
        /\ \A t \in 1..Len(midiFile.tracks) :
               parsed.tracks[t].events = midiFile.tracks[t].events

WriteParseInverseWitness ==
    /\ pc = "parsed"
    /\ Len(midiFile.tracks) = 1
    /\ midiFile.tracks[1].events =
           <<NoteOnEv(268435455, 15, 127, 127), MetaEv(128, 81, <<7, 161, 32>>)>>
    /\ parsed.tracks[1].events = midiFile.tracks[1].events

----------------------------------------------------------------------------
(* Specification SpecExport: notes and beats through sequencerToMidi,      *)
(* write, parse and midiToSequencer                                        *)

\* notes per list, beats per list
MaxNotes == 2
MaxBeats == 1

Note(t, p, s, l, v) == [track |-> t, pitch |-> p, start |-> s, length |-> l, velocity |-> v]

Beat(t, p, v) == [track |-> t, position |-> p, velocity |-> v]

\* start and length in 1/BeatDen beats; velocity 0 and track 16 are in the
\* data model's range (velocity 0..127, integer track)
NoteValues ==
    {Note(t, 60, s, l, 100) : t \in {0, 1}, s \in {0, 2}, l \in {2, 6}}
        \cup {Note(0, 72, 0, 2, 100), Note(0, 0, 1, 1, 1), Note(15, 127, 2, 2, 127),
              Note(0, 60, 0, 2, 0), Note(16, 60, 0, 2, 100)}

BeatValues == {Beat(t, p, 100) : t \in {0, 1}, p \in {0, 3}}

BpmValues == {40, 60, 120, 200, 300}

InitExport ==
    /\ pc = "input"
    /\ \/ /\ notes \in SeqsUpTo(NoteValues, MaxNotes)
          /\ beats \in SeqsUpTo(BeatValues, MaxBeats)
          /\ bpm = 120
          /\ ticksPerQuarter = 480
       \/ /\ notes \in SeqsUpTo(NoteValues, 1)
          /\ beats \in SeqsUpTo(BeatValues, 1)
          /\ bpm \in BpmValues
          /\ ticksPerQuarter \in {8, 96, 480}
    /\ value = 0 /\ vlq = <<>> /\ decoded = None
    /\ midiFile = None /\ data = <<>> /\ logical = None /\ parsed = None /\ result = None
    /\ TempoIdle /\ MixIdle /\ WavIdle /\ ParserIdle /\ ExportIdle

NextExport == SequencerToMidi \/ Write \/ Parse \/ MidiToSequencer

SpecExport == InitExport /\ [][NextExport]_vars

\* the (type, channel, pitch, absoluteTick) of the NoteOn/NoteOff events of a
\* track, absoluteTick the running sum of the delta times
RECURSIVE NoteKeys(_, _, _)
NoteKeys(events, i, tick) ==
    IF i > Len(events) THEN <<>>
    ELSE LET e == events[i]
             t == tick + e.deltaTime
         IN  (IF e.type \in {"noteOn", "noteOff"}
              THEN <<[type |-> e.type, channel |-> e.channel, note |-> e.note, tick |-> t]>>
              ELSE <<>>)
             \o NoteKeys(events, i + 1, t)

\* C1: parse(write(sequencerToMidi(notes, beats, bpm, ticksPerQuarter))) holds,
\* in each track, the same multiset of (NoteOn/NoteOff, channel, pitch,
\* absoluteTick) as the MidiFile sequencerToMidi returned.
ExportRoundTrip ==
    pc = "parsed" =>
        /\ parsed # Thrown
        /\ Len(parsed.tracks) = Len(midiFile.tracks)
        /\ \A t \in 1..Len(midiFile.tracks) :
               SameBag(NoteKeys(parsed.tracks[t].events, 1, 0),
                       NoteKeys(midiFile.tracks[t].events, 1, 0))

\* C9: for bpm in {40, 60, 120, 200, 300} createTempoData(bpm) is 3 big-endian
\* bytes holding the integer nearest to 60000000/bpm, and the bpm
\* extractBpmFromTempoData reads back from them is within 1 of bpm.
TempoRoundTrip ==
    bpm \in {40, 60, 120, 200, 300} =>
        /\ pc = "file" =>
              LET d == midiFile.tracks[1].events[1].data
                  m == d[1] * 65536 + d[2] * 256 + d[3]
              IN  /\ Len(d) = 3
                  /\ \A i \in 1..3 : d[i] \in 0..255
                  /\ m * bpm - 60000000 <= bpm \div 2
                  /\ 60000000 - m * bpm <= bpm \div 2
        /\ pc = "imported" =>
              /\ result.bpm - bpm <= 1
              /\ bpm - result.bpm <= 1

TempoRoundTripWitness ==
    /\ pc = "imported" /\ bpm = 300 /\ result.bpm = 300
    /\ midiFile.tracks[1].events[1].data = <<3, 13, 64>>
    /\ parsed.tracks[1].events[1].data = <<3, 13, 64>>

----------------------------------------------------------------------------
(* C12, C13, C14 *)

\* the NoteOn/NoteOff events of a track
ChannelEvents(track) ==
    SelectSeq(track.events, LAMBDA e : e.type \in {"noteOn", "noteOff"})

NoteTrackNumbers == {notes[i].track : i \in 1..Len(notes)}

\* the k-th smallest element of a set of numbers
KthSmallest(S, k) == CHOOSE c \in S : Cardinality({t \in S : t < c}) = k - 1

\* C12: sequencerToMidi returns a format-1 file of 1 + (distinct note.track
\* values) + (1 if there are beats) tracks: track 0 holds one Meta-Tempo and one
\* Meta-EndOfTrack, both at deltaTime 0; the note tracks follow in ascending
\* track-number order; the beat track is last; every NoteOn/NoteOff of a note
\* track carries the track number as its channel.
ExportLayout ==
    pc = "file" =>
        LET n == Cardinality(NoteTrackNumbers)
            f == midiFile
        IN  /\ f.format = 1
            /\ Len(f.tracks) = 1 + n + (IF beats = <<>> THEN 0 ELSE 1)
            /\ Len(f.tracks[1].events) = 2
            /\ f.tracks[1].events[1].type = "meta"
            /\ f.tracks[1].events[1].metaType = 81
            /\ f.tracks[1].events[1].deltaTime = 0
            /\ f.tracks[1].events[2].type = "meta"
            /\ f.tracks[1].events[2].metaType = 47
            /\ f.tracks[1].events[2].deltaTime = 0
            /\ \A k \in 1..n :
                   LET c  == KthSmallest(NoteTrackNumbers, k)
                       es == ChannelEvents(f.tracks[1 + k])
                   IN  /\ \A i \in 1..Len(es) : es[i].channel = c
                       /\ Len(es) = 2 * Cardinality({i \in 1..Len(notes) : notes[i].track = c})
            /\ beats # <<>> =>
                   LET es == ChannelEvents(f.tracks[Len(f.tracks)])
                   IN  /\ \A i \in 1..Len(es) : es[i].channel = 9
                       /\ Len(es) = 2 * Len(beats)

ExportLayoutWitness ==
    /\ pc = "file"
    /\ Len(notes) = 2 /\ notes[1].track = 1 /\ notes[2].track = 0
    /\ Len(beats) = 1
    /\ Len(midiFile.tracks) = 4
    /\ midiFile.tracks[2].events[1].channel = 0
    /\ midiFile.tracks[3].events[1].channel = 1
    /\ midiFile.tracks[4].events[1].channel = 9

\* the (type, channel, pitch, tick) of the NoteOn and NoteOff each note of
\* track c is to have
RECURSIVE ExpectedNoteKeys(_, _)
ExpectedNoteKeys(ns, c) ==
    IF ns = <<>> THEN <<>>
    ELSE LET note == Head(ns)
         IN  (IF note.track = c
              THEN << [type |-> "noteOn", channel |-> c, note |-> note.pitch,
                       tick |-> Round(note.start * ticksPerQuarter, BeatDen)],
                      [type |-> "noteOff", channel |-> c, note |-> note.pitch,
                       tick |-> Round((note.start + note.length) * ticksPerQuarter,
                                      BeatDen)] >>
              ELSE <<>>)
             \o ExpectedNoteKeys(Tail(ns), c)

\* delta times >= 0 and a closing Meta-EndOfTrack at deltaTime 0
WellTimed(track) ==
    /\ \A i \in 1..Len(track.events) : track.events[i].deltaTime >= 0
    /\ Len(track.events) >= 1
    /\ track.events[Len(track.events)] = EndOfTrack

\* C13: in every note track and the beat track of sequencerToMidi's result all
\* delta times are >= 0 (so absolute ticks never decrease), the running sum of
\* the delta times is round(start * ticksPerQuarter) at each NoteOn and
\* round((start + length) * ticksPerQuarter) at each NoteOff of a note, and the
\* last event is a Meta-EndOfTrack with deltaTime 0.
ExportTiming ==
    pc = "file" =>
        /\ \A t \in 2..Len(midiFile.tracks) : WellTimed(midiFile.tracks[t])
        /\ \A k \in 1..Cardinality(NoteTrackNumbers) :
               LET c == KthSmallest(NoteTrackNumbers, k)
               IN  SameBag(NoteKeys(midiFile.tracks[1 + k].events, 1, 0),
                           ExpectedNoteKeys(notes, c))

ExportTimingWitness ==
    /\ pc = "file"
    /\ notes = <<Note(0, 60, 2, 6, 100), Note(0, 72, 0, 2, 100)>>
    /\ beats # <<>>
    /\ ticksPerQuarter = 480
    /\ Len(midiFile.tracks) = 3
    /\ [i \in 1..5 |-> midiFile.tracks[2].events[i].deltaTime] = <<0, 240, 0, 720, 0>>
    /\ midiFile.tracks[2].events[1].note = 72

\* the (type, channel, pitch, eighths of a tick) of the NoteOn and NoteOff each
\* beat is to have: the NoteOff ticksPerQuarter/8 ticks after the NoteOn
RECURSIVE ExpectedBeatKeys(_)
ExpectedBeatKeys(bs) ==
    IF bs = <<>> THEN <<>>
    ELSE LET beat == Head(bs)
             n    == IF beat.track = 1 THEN 36 ELSE 38
             on   == Round(beat.position * ticksPerQuarter, BeatDen)
         IN  << [type |-> "noteOn", channel |-> 9, note |-> n, tick |-> 8 * on],
                [type |-> "noteOff", channel |-> 9, note |-> n,
                 tick |-> 8 * on + ticksPerQuarter] >>
             \o ExpectedBeatKeys(Tail(bs))

\* NoteKeys with the ticks in eighths
EighthKeys(events) ==
    LET ks == NoteKeys(events, 1, 0)
    IN  [i \in 1..Len(ks) |-> [ks[i] EXCEPT !.tick = 8 * @]]

\* the running sum of the delta times up to event i
RECURSIVE AbsTick(_, _)
AbsTick(events, i) == IF i = 0 THEN 0 ELSE AbsTick(events, i - 1) + events[i].deltaTime

IsOpening(e) == e.type = "noteOn" /\ e.velocity > 0

IsClosing(e) == e.type = "noteOff" \/ (e.type = "noteOn" /\ e.velocity = 0)

SameKey(e, g) == e.channel = g.channel /\ e.note = g.note

\* the NoteOns before event j of a track that event j closes: same channel
\* and pitch, and no NoteOff for them in between
Openers(events, j) ==
    {i \in 1..(j - 1) :
        /\ IsOpening(events[i]) /\ SameKey(events[i], events[j])
        /\ \A k \in (i + 1)..(j - 1) :
               ~(IsClosing(events[k]) /\ SameKey(events[k], events[j]))}

\* the notes a track closes, in the order of their closing events: channel,
\* pitch, velocity of the latest opening NoteOn, its tick and the closing tick
ClosedInTrack(events) ==
    SelectSeq(
        [j \in 1..Len(events) |->
            IF IsClosing(events[j]) /\ Openers(events, j) # {}
            THEN LET i == CHOOSE i \in Openers(events, j) :
                              \A h \in Openers(events, j) : h <= i
                 IN  [channel |-> events[j].channel, note |-> events[j].note,
                      velocity |-> events[i].velocity,
                      on |-> AbsTick(events, i), off |-> AbsTick(events, j)]
            ELSE None],
        LAMBDA x : x # None)

RECURSIVE ClosedNotes(_, _)
ClosedNotes(tracks, t) ==
    IF t > Len(tracks) THEN <<>>
    ELSE ClosedInTrack(tracks[t].events) \o ClosedNotes(tracks, t + 1)

OnChannel9(x) == x.channel = 9

\* the Beat each closed channel-9 note is to become
ExpectedBeats(f) ==
    LET cs == SelectSeq(ClosedNotes(f.tracks, 1), OnChannel9)
    IN  [i \in 1..Len(cs) |->
            [track    |-> IF cs[i].note = 36 THEN 1 ELSE 0,
             position |-> Beats(cs[i].on, f.ticksPerQuarter),
             velocity |-> cs[i].velocity]]

----------------------------------------------------------------------------
(* Specification SpecImport: files of well-formed events, with every       *)
(* status byte written out or with repeated status bytes left out (running *)
(* status), through parse and midiToSequencer                              *)

\* events per track of an imported file
MaxImportEvents == 3

PitchBendEv(dt, ch, v) ==
    [deltaTime |-> dt, type |-> "controller", channel |-> ch, value |-> v]
SysexEv(dt, payload) ==
    [deltaTime |-> dt, type |-> "sysex", data |-> payload]
UnknownEv(dt) ==
    [deltaTime |-> dt, type |-> "unknown"]

\* 120 bpm, 60 bpm, and a tempo payload that is not 3 bytes
TempoA == MetaEv(0, 81, <<7, 161, 32>>)
TempoB == MetaEv(0, 81, <<15, 66, 64>>)
TempoShort == MetaEv(0, 81, <<1, 2>>)

ImportEvents ==
    { TempoA, TempoB, TempoShort, EndOfTrack,
      NoteOnEv(0, 0, 60, 100), NoteOnEv(240, 0, 60, 100),
      NoteOffEv(24, 0, 60, 64), NoteOffEv(480, 0, 60, 64),
      NoteOnEv(240, 0, 60, 0),
      NoteOnEv(0, 9, 36, 90), NoteOffEv(240, 9, 36, 0), NoteOffEv(0, 1, 60, 0),
      ProgramChangeEv(0, 0, 0), ProgramChangeEv(0, 0, 5), ProgramChangeEv(0, 9, 7),
      PitchBendEv(0, 0, 8192), SysexEv(0, <<1, 247>>), UnknownEv(0) }

ImportFiles ==
    {[format |-> 1, tracks |-> ts, ticksPerQuarter |-> 480] :
        ts \in [1..1 -> TracksOf(ImportEvents, MaxImportEvents)]
               \cup UNION {[1..n -> TracksOf(ImportEvents, 1)] : n \in 0..MaxTracks}}

\* the status byte and the bytes after it that stand for an event in a file
\* (an unknown event: polyphonic aftertouch 0xA0, of which the parser skips
\* one byte)
StatusOf(e) ==
    IF e.type = "noteOn" THEN 144 + e.channel
    ELSE IF e.type = "noteOff" THEN 128 + e.channel
    ELSE IF e.type = "controller" /\ "controller" \in DOMAIN e THEN 176 + e.channel
    ELSE IF e.type = "controller" THEN 224 + e.channel
    ELSE IF e.type = "programChange" THEN 192 + e.channel
    ELSE IF e.type = "meta" THEN 255
    ELSE IF e.type = "sysex" THEN 240
    ELSE 160

BodyOf(e) ==
    IF e.type \in {"noteOn", "noteOff"} THEN <<e.note, e.velocity>>
    ELSE IF e.type = "controller" /\ "controller" \in DOMAIN e THEN <<e.controller, e.value>>
    ELSE IF e.type = "controller" THEN <<e.value % 128, e.value \div 128>>
    ELSE IF e.type = "programChange" THEN <<e.program>>
    ELSE IF e.type = "meta" THEN <<e.metaType>> \o writeVariableLength(Len(e.data)) \o e.data
    ELSE IF e.type = "sysex" THEN writeVariableLength(Len(e.data)) \o e.data
    ELSE <<0>>

\* the bytes of a track; with running, a status byte equal to the previous
\* event's is left out when the byte after it has its high bit clear
RECURSIVE TrackBytes(_, _, _)
TrackBytes(events, i, running) ==
    IF i > Len(events) THEN <<>>
    ELSE LET e == events[i]
             omit == /\ running /\ i > 1
                     /\ StatusOf(e) = StatusOf(events[i - 1])
                     /\ BodyOf(e)[1] < 128
         IN  writeVariableLength(e.deltaTime)
                 \o (IF omit THEN <<>> ELSE <<StatusOf(e)>>) \o BodyOf(e)
                 \o TrackBytes(events, i + 1, running)

RECURSIVE TrackChunks(_, _, _)
TrackChunks(tracks, i, running) ==
    IF i > Len(tracks) THEN <<>>
    ELSE createChunk(MTrk, TrackBytes(tracks[i].events, 1, running))
             \o TrackChunks(tracks, i + 1, running)

FileBytes(f, running) ==
    createChunk(MThd, writeUint16(f.format) \o writeUint16(Len(f.tracks))
                          \o writeUint16(f.ticksPerQuarter))
        \o TrackChunks(f.tracks, 1, running)

InitImport ==
    /\ pc = "bytes"
    /\ logical \in ImportFiles
    /\ data \in {FileBytes(logical, FALSE), FileBytes(logical, TRUE)}
    /\ value = 0 /\ vlq = <<>> /\ decoded = None
    /\ notes = <<>> /\ beats = <<>> /\ bpm = 120 /\ ticksPerQuarter = 480
    /\ midiFile = None /\ parsed = None /\ result = None
    /\ TempoIdle /\ MixIdle /\ WavIdle /\ ParserIdle /\ ExportIdle

NextImport == Parse \/ MidiToSequencer

SpecImport == InitImport /\ [][NextImport]_vars

\* C7: the bytes of a track with repeated status bytes left out parse to the
\* same event list as the bytes in which every event restates its status byte.
RunningStatusTransparent ==
    pc = "parsed" =>
        /\ parsed # Thrown
        /\ parsed = parse(FileBytes(logical, FALSE))
        /\ \A t \in 1..Len(logical.tracks) :
               Len(parsed.tracks[t].events) = Len(logical.tracks[t].events)

RunningStatusTransparentWitness ==
    /\ pc = "parsed"
    /\ Len(logical.tracks) = 1
    /\ data = FileBytes(logical, TRUE)
    /\ Len(data) + 2 = Len(FileBytes(logical, FALSE))
    /\ logical.tracks[1].events =
           <<NoteOnEv(0, 0, 60, 100), NoteOnEv(240, 0, 60, 100), NoteOnEv(240, 0, 60, 0)>>
    /\ parsed.tracks[1].events[3].type = "noteOff"

\* a file with each NoteOff replaced by a NoteOn with velocity 0 on the same
\* channel and pitch
OffAsOnZero(f) ==
    [f EXCEPT !.tracks =
        [t \in 1..Len(f.tracks) |->
            [events |->
                [i \in 1..Len(f.tracks[t].events) |->
                    LET e == f.tracks[t].events[i]
                    IN  IF e.type = "noteOff"
                        THEN [e EXCEPT !.type = "noteOn", !.velocity = 0]
                        ELSE e]]]]

\* C8: the parser gives type noteOff to every 0x9n event with velocity 0, and
\* midiToSequencer returns the same notes and beats for a file as for the file
\* with each NoteOff replaced by a NoteOn with velocity 0.
NoteOnZeroIsNoteOff ==
    /\ pc = "parsed" =>
          \A t \in 1..Len(logical.tracks) : \A i \in 1..Len(logical.tracks[t].events) :
              LET e == logical.tracks[t].events[i]
              IN  (e.type = "noteOn" /\ e.velocity = 0) =>
                      /\ parsed.tracks[t].events[i].type = "noteOff"
                      /\ parsed.tracks[t].events[i].channel = e.channel
                      /\ parsed.tracks[t].events[i].note = e.note
    /\ pc = "imported" =>
          /\ result.notes = midiToSequencer(OffAsOnZero(parsed)).notes
          /\ result.beats = midiToSequencer(OffAsOnZero(parsed)).beats

NoteOnZeroIsNoteOffWitness ==
    /\ pc = "imported"
    /\ Len(logical.tracks) = 1
    /\ logical.tracks[1].events =
           <<NoteOnEv(0, 0, 60, 100), NoteOnEv(240, 0, 60, 0), EndOfTrack>>
    /\ parsed.tracks[1].events[2].type = "noteOff"
    /\ Len(result.notes) = 1
    /\ result.notes[1].length = Beats(240, 480)

\* the events of all tracks in the order midiToSequencer walks them
RECURSIVE WalkOrder(_, _)
WalkOrder(tracks, t) ==
    IF t > Len(tracks) THEN <<>> ELSE tracks[t].events \o WalkOrder(tracks, t + 1)

IsTempo(e) == e.type = "meta" /\ e.metaType = 81

\* the value of the first tempo event of the walk, 120 without one
FirstTempo(f) ==
    LET w == WalkOrder(f.tracks, 1)
        T == {i \in 1..Len(w) : IsTempo(w[i])}
    IN  IF T = {} THEN 120
        ELSE extractBpmFromTempoData(w[CHOOSE i \in T : \A j \in T : i <= j].data)

\* the value of the last tempo event of the walk before its first NoteOn
\* with velocity > 0, 120 without one
LastTempoBeforeNotes(f) ==
    LET w == WalkOrder(f.tracks, 1)
        N == {i \in 1..Len(w) : w[i].type = "noteOn" /\ w[i].velocity > 0}
        T == {i \in 1..Len(w) : IsTempo(w[i]) /\ \A n \in N : i < n}
    IN  IF T = {} THEN 120
        ELSE extractBpmFromTempoData(w[CHOOSE i \in T : \A j \in T : i >= j].data)

ProgramsOn(f, c) ==
    LET w == WalkOrder(f.tracks, 1)
    IN  SelectSeq([i \in 1..Len(w) |->
                      IF w[i].type = "programChange" /\ w[i].channel = c
                      THEN w[i].program ELSE undefined],
                  LAMBDA x : x # undefined)

\* C11: for every channel other than 9, instrumentCodes[channel] is the program
\* of the first ProgramChange event of the walk on that channel (any program
\* 0..127), later ProgramChange events on the channel never overwrite it, and
\* ProgramChange events on channel 9 are never recorded.
FirstProgramWins ==
    pc = "imported" =>
        /\ 9 \notin DOMAIN result.instrumentCodes
        /\ \A c \in (0..15) \ {9} :
               LET ps == ProgramsOn(parsed, c)
               IN  IF ps = <<>> THEN c \notin DOMAIN result.instrumentCodes
                   ELSE /\ c \in DOMAIN result.instrumentCodes
                        /\ result.instrumentCodes[c] = ps[1]


NotOnChannel9(x) == x.channel # 9

SameRational(a, b) == a.num * b.den = b.num * a.den

\* the Note each closed note off channel 9 is to become; the length is
\* max(0.1, closing beat - opening beat)
ExpectedNotes(f) ==
    LET cs == SelectSeq(ClosedNotes(f.tracks, 1), NotOnChannel9)
        q  == f.ticksPerQuarter
    IN  [i \in 1..Len(cs) |->
            [track    |-> cs[i].channel,
             pitch    |-> cs[i].note,
             start    |-> Beats(cs[i].on, q),
             length   |-> IF 10 * (cs[i].off - cs[i].on) < q
                          THEN Beats(1, 10) ELSE Beats(cs[i].off - cs[i].on, q),
             velocity |-> cs[i].velocity]]

\* C15: open notes are kept per track and per (channel, pitch).  A NoteOff (or
\* NoteOn with velocity 0) without an open entry in its track emits nothing;
\* one with an open entry emits exactly one Note or Beat that starts at the
\* opening NoteOn's beat, has its velocity and (a Note) the length
\* max(0.1, currentBeat - startBeat), and removes the entry, so a second NoteOff
\* is ignored; entries open at the end of a track are never emitted.
OpenNoteTracking ==
    pc = "imported" =>
        LET ns == ExpectedNotes(parsed)
        IN  /\ result.beats = ExpectedBeats(parsed)
            /\ Len(result.notes) = Len(ns)
            /\ \A i \in 1..Len(ns) :
                   /\ result.notes[i].track = ns[i].track
                   /\ result.notes[i].pitch = ns[i].pitch
                   /\ result.notes[i].start = ns[i].start
                   /\ result.notes[i].velocity = ns[i].velocity
                   /\ SameRational(result.notes[i].length, ns[i].length)

\* a NoteOn closed by the first of two NoteOffs, the second ignored, and the
\* length raised to 0.1
OpenNoteTrackingWitness ==
    /\ pc = "imported"
    /\ Len(parsed.tracks) = 1
    /\ parsed.tracks[1].events =
           <<NoteOnEv(0, 0, 60, 100), NoteOffEv(24, 0, 60, 64), NoteOffEv(480, 0, 60, 64)>>
    /\ result.notes = << [track |-> 0, pitch |-> 60, start |-> Beats(0, 480),
                          length |-> Beats(1, 10), velocity |-> 100] >>

----------------------------------------------------------------------------
(* Specification SpecParse: damaged files through parse -- every prefix of *)
(* a well-formed file, and every well-formed file with one byte replaced   *)

BaseFiles ==
    { [format |-> 1, tracks |-> <<>>, ticksPerQuarter |-> 480],
      [format |-> 1, ticksPerQuarter |-> 480,
       tracks |-> << [events |-> <<NoteOnEv(0, 0, 60, 100), NoteOffEv(128, 0, 60, 0),
                                   EndOfTrack>>] >>],
      [format |-> 1, ticksPerQuarter |-> 480,
       tracks |-> << [events |-> <<TempoA, EndOfTrack>>],
                     [events |-> <<NoteOnEv(0, 0, 60, 100), NoteOnEv(240, 0, 60, 0)>>] >>],
      [format |-> 0, ticksPerQuarter |-> 96,
       tracks |-> << [events |-> <<ProgramChangeEv(0, 0, 5), SysexEv(0, <<1, 247>>),
                                   PitchBendEv(0, 0, 8192)>>] >>] }

BaseBytes == {FileBytes(f, r) : f \in BaseFiles, r \in BOOLEAN}

\* the bytes a damaged file may hold in place of one of its own
SubstBytes == {0, 1, 7, 77, 127, 128, 144, 255}

DamagedBytes ==
    UNION {
        {SubSeq(w, 1, k) : k \in 0..Len(w)}
            \cup {[w EXCEPT ![p] = v] : p \in 1..Len(w), v \in SubstBytes}
        : w \in BaseBytes }

InitParse ==
    /\ pc = "bytes"
    /\ data \in DamagedBytes
    /\ value = 0 /\ vlq = <<>> /\ decoded = None
    /\ notes = <<>> /\ beats = <<>> /\ bpm = 120 /\ ticksPerQuarter = 480
    /\ midiFile = None /\ logical = None /\ parsed = None /\ result = None
    /\ TempoIdle /\ MixIdle /\ WavIdle /\ ParserIdle /\ ExportIdle

NextParse == Parse

SpecParse == InitParse /\ [][NextParse]_vars

\* the next n chunks from pos on all carry the id "MTrk"
RECURSIVE TrackIdsOk(_, _, _)
TrackIdsOk(d, pos, n) ==
    IF n = 0 THEN TRUE
    ELSE LET c == readChunk(d, pos)
         IN  c.type = MTrk /\ TrackIdsOk(d, c.pos, n - 1)

HeaderPayload == readChunk(data, 0).data

HeaderTrackCount == readUint16(HeaderPayload, 2)

\* C5: parse throws whenever the first chunk id is not "MThd", or the header
\* payload is not 6 bytes long, or one of the trackCount chunks after the header
\* has an id other than "MTrk"; a MidiFile it returns has exactly trackCount
\* tracks.
FormatErrors ==
    pc = "parsed" =>
        /\ Slice(data, 0, 4) # MThd => parsed = Thrown
        /\ Len(HeaderPayload) # 6 => parsed = Thrown
        /\ ~TrackIdsOk(data, readChunk(data, 0).pos, HeaderTrackCount) => parsed = Thrown
        /\ parsed # Thrown => Len(parsed.tracks) = HeaderTrackCount

FormatErrorsWitness ==
    /\ pc = "parsed"
    /\ Slice(data, 0, 4) = MThd
    /\ Len(HeaderPayload) = 6
    /\ HeaderTrackCount = 2
    /\ TrackIdsOk(data, readChunk(data, 0).pos, 1)
    /\ ~TrackIdsOk(data, readChunk(data, 0).pos, 2)
    /\ parsed = Thrown

\* parseTrack's loop over track data d reads a byte that is not there
RECURSIVE TrackOverrun(_, _, _)
TrackOverrun(d, pos, runningStatus) ==
    IF pos < Len(d)
    THEN LET r == parseEvent(d, pos, runningStatus)
         IN  r.thrown \/ r.pos > Len(d) \/ TrackOverrun(d, r.pos, r.runningStatus)
    ELSE FALSE

\* one of the next n chunks from pos on declares more bytes than the file
\* holds, or holds an event that runs past the chunk's end
RECURSIVE ChunkOverrun(_, _, _)
ChunkOverrun(d, pos, n) ==
    IF n = 0 THEN FALSE
    ELSE LET c == readChunk(d, pos)
         IN  /\ c.type = MTrk
             /\ \/ c.length > Len(c.data)
                \/ TrackOverrun(c.data, 0, 0)
                \/ ChunkOverrun(d, c.pos, n - 1)

\* C6: when a track chunk declares a length larger than the bytes available,
\* or an event in a track would read past the end of the track's data, parse
\* throws instead of returning a MidiFile.
TruncationErrors ==
    (/\ pc = "parsed"
     /\ Slice(data, 0, 4) = MThd
     /\ Len(HeaderPayload) = 6
     /\ ChunkOverrun(data, readChunk(data, 0).pos, HeaderTrackCount))
        => parsed = Thrown

----------------------------------------------------------------------------
(* AudioManager.renderMixToAudioBuffer: beats to seconds                   *)

RECURSIVE sortedBeats(_)
sortedBeats(S) ==
    IF S = {} THEN <<>>
    ELSE LET m == CHOOSE x \in S : \A y \in S : x <= y
         IN  <<m>> \o sortedBeats(S \ {m})

\* bpmEntries: an entry at beat 0 with params.bpm, or with the bpm params.bpms
\* holds for beat 0, then one entry per other key of params.bpms, sorted by beat
bpmEntries(b, m) ==
    LET order == sortedBeats(DOMAIN m \cup {0})
    IN  [i \in 1..Len(order) |->
            [beat |-> order[i],
             bpm  |-> IF order[i] \in DOMAIN m THEN m[order[i]] ELSE b]]

\* seconds per beat that leave the playback speed out
secondsPerBeatUnscaled(segBpm, speed) == Rat(60, segBpm)

\* 60 / (segBpm * params.playbackSpeed)
secondsPerBeat(segBpm, speed) == Rat(60 * speed.den, segBpm * speed.num)

\* a loop that assigns each segment's seconds instead of adding them
RECURSIVE beatPosToSecondsLoopAssign(_, _, _, _, _)
beatPosToSecondsLoopAssign(entries, speed, beatPos, i, secs) ==
    IF i > Len(entries) THEN secs
    ELSE LET segStart   == entries[i].beat
             inSegment  == i + 1 > Len(entries) \/ beatPos <= entries[i + 1].beat
             endBeat    == IF inSegment THEN beatPos ELSE entries[i + 1].beat
             next       == RatMul(secondsPerBeat(entries[i].bpm, speed),
                                  Rat(endBeat - segStart, BeatDen))
         IN  IF beatPos <= segStart THEN secs
             ELSE IF inSegment THEN next
             ELSE beatPosToSecondsLoopAssign(entries, speed, beatPos, i + 1, next)

\* the loop of beatPosToSeconds from entry i on; the last segment ends at
\* Infinity, so there Math.min(beatPos, segEnd) is beatPos
RECURSIVE beatPosToSecondsLoop(_, _, _, _, _)
beatPosToSecondsLoop(entries, speed, beatPos, i, secs) ==
    IF i > Len(entries) THEN secs
    ELSE LET segStart   == entries[i].beat
             inSegment  == i + 1 > Len(entries) \/ beatPos <= entries[i + 1].beat
             endBeat    == IF inSegment THEN beatPos ELSE entries[i + 1].beat
             deltaBeats == Rat(endBeat - segStart, BeatDen)
             next       == RatAdd(secs, RatMul(secondsPerBeat(entries[i].bpm, speed),
                                               deltaBeats))
         IN  IF beatPos <= segStart THEN secs
             ELSE IF inSegment THEN next
             ELSE beatPosToSecondsLoop(entries, speed, beatPos, i + 1, next)

beatPosToSeconds(entries, speed, beatPos) ==
    IF beatPos <= 0 THEN Zero
    ELSE beatPosToSecondsLoop(entries, speed, beatPos, 1, Zero)

\* beatRangeToSeconds, with the two times it subtracts
beatRangeToSeconds(entries, speed, start, length) ==
    LET startSec == beatPosToSeconds(entries, speed, start)
        endSec   == beatPosToSeconds(entries, speed, start + length)
    IN  [startSec |-> startSec, endSec |-> endSec,
         durationSec |-> RatMax(Zero, RatSub(endSec, startSec))]

\* params.notes.forEach: startSec and durationSec of a note
NoteSeconds ==
    /\ pc = "tempo"
    /\ seconds' = beatRangeToSeconds(bpmEntries(bpm, bpms), playbackSpeed,
                                     startBeat, lengthBeats)
    /\ pc' = "seconds"
    /\ UNCHANGED <<vlqVars, inputVars, midiVars, bpms, bpmsOrder, playbackSpeed,
                   startBeat, lengthBeats, mixVars, wavVars, parser, exportVars>>

----------------------------------------------------------------------------
(* Specification SpecTempo: a tempo map, a playback speed and a note's     *)
(* start and length through beatRangeToSeconds                             *)

\* tempo breakpoints at beats 0, 6/BeatDen and 8
TempoBeats == {0, 6, 8 * BeatDen}

TempoBpms == {60, 90, 120}

TempoMaps == UNION {[S -> TempoBpms] : S \in SUBSET TempoBeats}

PlaybackSpeeds == {Rat(1, 2), Rat(1, 1), Rat(2, 1)}

StartBeats == {-BeatDen, 0, 3, 6, 8 * BeatDen, 8 * BeatDen + 2, 16 * BeatDen}

LengthBeats == {0, 2, 3, 8 * BeatDen}

\* the orders in which the keys of a Map may have been inserted
Orders(S) ==
    {o \in [1..Cardinality(S) -> S] : \A i, j \in 1..Cardinality(S) : o[i] = o[j] => i = j}

InitTempo ==
    /\ pc = "tempo"
    /\ bpm \in {60, 120}
    /\ bpms \in TempoMaps
    /\ bpmsOrder \in Orders(DOMAIN bpms)
    /\ playbackSpeed \in PlaybackSpeeds
    /\ startBeat \in StartBeats
    /\ lengthBeats \in LengthBeats
    /\ seconds = None
    /\ value = 0 /\ vlq = <<>> /\ decoded = None
    /\ notes = <<>> /\ beats = <<>> /\ ticksPerQuarter = 480
    /\ midiFile = None /\ data = <<>> /\ logical = None /\ parsed = None /\ result = None
    /\ MixIdle /\ WavIdle /\ ParserIdle /\ ExportIdle

NextTempo == NoteSeconds

SpecTempo == InitTempo /\ [][NextTempo]_vars

----------------------------------------------------------------------------
(* C16, C17 *)

\* (segEnd - segStart) * 60 / (bpm * speed), summed over the segments before
\* entry i
RECURSIVE EarlierSegments(_, _, _)
EarlierSegments(entries, speed, i) ==
    IF i <= 1 THEN Zero
    ELSE RatAdd(EarlierSegments(entries, speed, i - 1),
                Rat((entries[i].beat - entries[i - 1].beat) * 60 * speed.den,
                    entries[i - 1].bpm * speed.num * BeatDen))

\* C16: with tempo map [(beat 0, 120 bpm), (beat 8, 60 bpm)] and playback speed
\* 1 the conversion returns exactly 4 for beat 8 and exactly 12 for beat 16; in
\* general the time at a breakpoint is the sum of (segEnd - segStart) * 60 /
\* (bpm * speed) over the earlier segments.
BreakpointSeconds ==
    pc = "seconds" =>
        LET entries == bpmEntries(bpm, bpms)
        IN  /\ ( /\ entries = << [beat |-> 0, bpm |-> 120],
                                [beat |-> 8 * BeatDen, bpm |-> 60] >>
                 /\ playbackSpeed = Rat(1, 1) ) =>
                   /\ startBeat = 8 * BeatDen => seconds.startSec = Rat(4, 1)
                   /\ startBeat = 16 * BeatDen => seconds.startSec = Rat(12, 1)
                   /\ startBeat + lengthBeats = 16 * BeatDen =>
                          seconds.endSec = Rat(12, 1)
            /\ \A i \in 1..Len(entries) :
                   /\ entries[i].beat = startBeat =>
                          seconds.startSec = EarlierSegments(entries, playbackSpeed, i)
                   /\ entries[i].beat = startBeat + lengthBeats =>
                          seconds.endSec = EarlierSegments(entries, playbackSpeed, i)

BreakpointSecondsWitness ==
    /\ pc = "seconds"
    /\ bpm = 120 /\ DOMAIN bpms = {8 * BeatDen} /\ bpms[8 * BeatDen] = 60
    /\ playbackSpeed = Rat(1, 1)
    /\ startBeat = 8 * BeatDen /\ lengthBeats = 8 * BeatDen
    /\ seconds.startSec = Rat(4, 1) /\ seconds.endSec = Rat(12, 1)

\* the bpm of the segment a beat position lies in, the position at a
\* breakpoint belonging to the segment that starts there
BpmFrom(entries, beatPos) ==
    entries[CHOOSE i \in 1..Len(entries) :
                /\ entries[i].beat <= beatPos
                /\ \A j \in 1..Len(entries) :
                       entries[j].beat <= beatPos => entries[j].beat <= entries[i].beat].bpm

\* no breakpoint lies strictly between a and b
OneSegment(entries, a, b) ==
    \A i \in 1..Len(entries) : ~(a < entries[i].beat /\ entries[i].beat < b)

\* C17: for positive bpm values and a positive playback speed the conversion
\* is monotonic non-decreasing in the beat position, returns 0 for a beat <= 0,
\* and has no jump at a breakpoint: the seconds between two positions of one
\* segment, either of which may be a breakpoint, are their distance at that
\* segment's tempo.
SecondsMonotonic ==
    pc = "seconds" =>
        LET entries == bpmEntries(bpm, bpms)
        IN  /\ RatLE(seconds.startSec, seconds.endSec)
            /\ RatLE(Zero, seconds.startSec)
            /\ startBeat <= 0 => seconds.startSec = Zero
            /\ startBeat + lengthBeats <= 0 => seconds.endSec = Zero
            /\ (startBeat >= 0 /\ OneSegment(entries, startBeat, startBeat + lengthBeats)) =>
                   RatSub(seconds.endSec, seconds.startSec) =
                       Rat(lengthBeats * 60 * playbackSpeed.den,
                           BpmFrom(entries, startBeat) * playbackSpeed.num * BeatDen)

\* from the breakpoint at beat 8 into the segment after it, and up to the
\* breakpoint from the segment before it
SecondsMonotonicWitness ==
    /\ pc = "seconds"
    /\ bpm = 120 /\ DOMAIN bpms = {6, 8 * BeatDen}
    /\ bpms[6] = 90 /\ bpms[8 * BeatDen] = 60
    /\ playbackSpeed = Rat(2, 1)
    /\ startBeat = 8 * BeatDen /\ lengthBeats = 2
    /\ RatLE(Zero, seconds.startSec) /\ seconds.startSec # Zero
    /\ RatSub(seconds.endSec, seconds.startSec) = Rat(2 * 60, 60 * 2 * BeatDen)

----------------------------------------------------------------------------
(* AudioManager.renderMixToAudioBuffer: the mixing pass.  A sample of an   *)
(* output buffer is the sequence of the addends `+=` gave it, in order.    *)

Min(a, b) == IF a < b THEN a ELSE b

Max(a, b) == IF a > b THEN a ELSE b

\* the block size of the renderer
RenderBlockSize == 16384

\* a NoteInfo or BeatInfo: its sample range, and for a voice played from a
\* file the length of the source data
SineInfo(from, to) == [startSample |-> from, endSample |-> to, isSine |-> TRUE]

FileInfo(from, to, len) ==
    [startSample |-> from, endSample |-> to, isSine |-> FALSE, srcLen |-> len]

\* ni.playbackRate || 1 (a BeatInfo has none)
playbackRateOf(info) == IF "playbackRate" \in DOMAIN info THEN info.playbackRate ELSE 1

\* timeSinceStart * playbackRate * srcRate for a source at the output's sample
\* rate
srcIndex(info, i) == (i - info.startSample) * playbackRateOf(info)

\* a first sample that is not held to the block
sStartOfVoice(from, info) == info.startSample

\* Math.max(blockStart, ni.startSample)
sStart(from, info) == Max(from, info.startSample)

\* Math.min(blockEnd, ni.endSample)
sEnd(to, info) == Min(to, info.endSample)

\* the block [from, to) makes the voice add to sample i
adds(info, from, to, i) ==
    /\ ~(info.endSample <= from \/ info.startSample >= to)
    /\ sStart(from, info) <= i /\ i < sEnd(to, info)
    /\ info.isSine \/ ~(srcIndex(info, i) < 0 \/ srcIndex(info, i) >= info.srcLen)

\* what the loop over a list of infos adds to sample i, in list order
contributions(kind, infos, from, to, i) ==
    SelectSeq([k \in 1..Len(infos) |->
                  IF adds(infos[k], from, to, i)
                  THEN [voice |-> kind, index |-> k, t |-> i - infos[k].startSample]
                  ELSE None],
              LAMBDA x : x # None)

\* one iteration of the block loop: the notes, then the beats
mixBlock(out, nis, bis, from, to) ==
    [j \in 1..Len(out) |->
        out[j] \o contributions("note", nis, from, to, j - 1)
               \o contributions("beat", bis, from, to, j - 1)]

MixBlock ==
    /\ pc = "mix"
    /\ blockStart < totalSamples
    /\ outputs' = mixBlock(outputs, noteInfos, beatInfos, blockStart,
                           Min(totalSamples, blockStart + blockSize))
    /\ blockStart' = blockStart + blockSize
    /\ UNCHANGED <<pc, vlqVars, inputVars, midiVars, tempoVars, noteInfos, beatInfos,
                   totalSamples, blockSize, wavVars, parser, exportVars>>

\* the loop is over: the outputs are copied into the AudioBuffer; the
\* AudioBuffer constructor throws for a length of 0
ReturnBuffer ==
    /\ pc = "mix"
    /\ ~(blockStart < totalSamples)
    /\ pc' = IF totalSamples > 0 THEN "mixed" ELSE "failed"
    /\ UNCHANGED <<vlqVars, inputVars, midiVars, tempoVars, mixVars, wavVars, parser, exportVars>>

----------------------------------------------------------------------------
(* Specification SpecMix: lists of voices mixed with every block size      *)

\* samples per output buffer, NoteInfos and BeatInfos per list
MaxSamples == 4
MaxNoteInfos == 2
MaxBeatInfos == 1

\* sine and file voices; a file shorter than its range; an empty range; a
\* voice that starts after the end of the output
NoteInfoValues ==
    { SineInfo(0, 3), SineInfo(1, 2), SineInfo(2, 4), SineInfo(3, 3), SineInfo(6, 4),
      FileInfo(0, 4, 2), FileInfo(1, 3, 4) }

BeatInfoValues == { SineInfo(0, 2), SineInfo(2, 4), FileInfo(1, 4, 1) }

BlockSizes == (1..(MaxSamples + 1)) \cup {RenderBlockSize}

InitMix ==
    /\ pc = "mix"
    /\ noteInfos \in SeqsUpTo(NoteInfoValues, MaxNoteInfos)
    /\ beatInfos \in SeqsUpTo(BeatInfoValues, MaxBeatInfos)
    /\ totalSamples = MaxSamples
    /\ blockSize \in BlockSizes
    /\ blockStart = 0
    /\ outputs = [j \in 1..MaxSamples |-> <<>>]
    /\ value = 0 /\ vlq = <<>> /\ decoded = None
    /\ notes = <<>> /\ beats = <<>> /\ bpm = 120 /\ ticksPerQuarter = 480
    /\ midiFile = None /\ data = <<>> /\ logical = None /\ parsed = None /\ result = None
    /\ TempoIdle /\ WavIdle /\ ParserIdle /\ ExportIdle

NextMix == MixBlock \/ ReturnBuffer

SpecMix == InitMix /\ [][NextMix]_vars

----------------------------------------------------------------------------
(* C18 *)

Covers(info, i) == info.startSample <= i /\ i < info.endSample

\* inside its range a sine voice always sounds, a file voice while the source
\* index is inside the source data
Sounds(info, i) ==
    Covers(info, i) /\ (info.isSine \/ srcIndex(info, i) < info.srcLen)

\* one addend for each voice of the list that satisfies Test at sample i, in
\* list order
OnePerVoice(kind, infos, i, Test(_, _)) ==
    SelectSeq([k \in 1..Len(infos) |->
                  IF Test(infos[k], i)
                  THEN [voice |-> kind, index |-> k, t |-> i - infos[k].startSample]
                  ELSE None],
              LAMBDA x : x # None)

SingleBlockRender ==
    mixBlock([j \in 1..totalSamples |-> <<>>], noteInfos, beatInfos, 0, totalSamples)

\* C18 as claimed: for every block size each sample i receives exactly one
\* contribution from each note and beat whose [startSample, endSample) contains
\* i and none from any other, notes in list order, then beats in list order, so
\* the output equals that of a single-block render.
OneContributionPerCoveringVoice ==
    pc = "mixed" =>
        /\ \A i \in 0..(totalSamples - 1) :
               outputs[i + 1] = OnePerVoice("note", noteInfos, i, Covers)
                                    \o OnePerVoice("beat", beatInfos, i, Covers)
        /\ outputs = SingleBlockRender

\* C18 as amended: for every block size each sample i receives exactly one
\* contribution from each sine voice whose range contains i, and from each file
\* voice whose range contains i while the source index of i is inside the
\* source data, and none from any other; notes in list order, then beats in
\* list order; the output equals that of a single-block render.
BlockSizeIndependent ==
    pc = "mixed" =>
        /\ \A i \in 0..(totalSamples - 1) :
               outputs[i + 1] = OnePerVoice("note", noteInfos, i, Sounds)
                                    \o OnePerVoice("beat", beatInfos, i, Sounds)
        /\ outputs = SingleBlockRender

\* blocks of one sample; two notes and a beat on sample 1, and a file note
\* that has run out of source on sample 2
BlockSizeIndependentWitness ==
    /\ pc = "mixed"
    /\ blockSize = 1
    /\ noteInfos = <<FileInfo(0, 4, 2), SineInfo(1, 2)>>
    /\ beatInfos = <<SineInfo(0, 2)>>
    /\ outputs[2] = << [voice |-> "note", index |-> 1, t |-> 1],
                       [voice |-> "note", index |-> 2, t |-> 0],
                       [voice |-> "beat", index |-> 1, t |-> 1] >>
    /\ outputs[3] = <<>>

----------------------------------------------------------------------------
(* wav.worker.ts: the 'encode' message handler.  A sample is a rational.   *)

\* "RIFF", "WAVE", "fmt ", "data" as char codes
RIFF == <<82, 73, 70, 70>>
WAVE == <<87, 65, 86, 69>>
FmtTag == <<102, 109, 116, 32>>
DataTag == <<100, 97, 116, 97>>

\* DataView.setUint16 / setUint32 / setInt16 with littleEndian = true (values
\* of the model stay below 2^31)
setUint16(v) == <<v % 256, (v \div 256) % 256>>

setUint32(v) == <<v % 256, (v \div 256) % 256, (v \div 65536) % 256, (v \div 16777216) % 256>>

setInt16(v) == setUint16(v % 65536)

\* new ArrayBuffer(n): n zero bytes
ArrayBuffer(n) == [k \in 1..n |-> 0]

\* the bytes stored from offset on; a store past the end is a RangeError
Store(buf, offset, bytes) ==
    IF buf = Thrown \/ offset + Len(bytes) > Len(buf) THEN Thrown
    ELSE [k \in 1..Len(buf) |->
             IF k > offset /\ k <= offset + Len(bytes) THEN bytes[k - offset] ELSE buf[k]]

\* data.bitsPerSample || 16
bitsPerSampleOf(req) == IF Get(req, "bitsPerSample") \in {undefined, 0} THEN 16
                        ELSE req.bitsPerSample

blockAlignOf(req) == req.numChannels * (bitsPerSampleOf(req) \div 8)

dataLengthOf(req) == req.length * blockAlignOf(req)

\* a RIFF size that counts the whole file
riffSizeOfFile(dataLength) == 44 + dataLength

\* the value stored at offset 4
riffSize(dataLength) == 36 + dataLength

\* the 44 header bytes, in the order of their offsets
wavHeader(req) ==
    RIFF \o setUint32(riffSize(dataLengthOf(req))) \o WAVE \o FmtTag \o setUint32(16)
        \o setUint16(1) \o setUint16(req.numChannels) \o setUint32(req.sampleRate)
        \o setUint32(req.sampleRate * blockAlignOf(req)) \o setUint16(blockAlignOf(req))
        \o setUint16(bitsPerSampleOf(req)) \o DataTag \o setUint32(dataLengthOf(req))

\* Math.max(-1, Math.min(1, sample))
clampSample(sample) ==
    IF RatLE(Rat(1, 1), sample) THEN Rat(1, 1)
    ELSE IF RatLE(sample, Rat(-1, 1)) THEN Rat(-1, 1)
    ELSE sample

\* a scaling by 0x8000 on both sides of zero
intSampleOneScale(sample) == RatMul(sample, Rat(32768, 1))

\* sample < 0 ? sample * 0x8000 : sample * 0x7fff
intSample(sample) ==
    IF sample.num < 0 THEN RatMul(sample, Rat(32768, 1))
    ELSE RatMul(sample, Rat(32767, 1))

\* the Int16 stored for a sample
quantize(sample) ==
    LET scaled == intSample(clampSample(sample))
    IN  Round(scaled.num, scaled.den)

\* channels[ch][i] || 0
sampleAt(req, ch, i) ==
    IF i + 1 \in DOMAIN req.channels[ch + 1] THEN req.channels[ch + 1][i + 1] ELSE Zero

\* The bytes the sample loop stores from offset 44 on: offset grows by 2 per
\* sample, frames in the outer loop, channels in the inner, so sample number
\* s = i * numChannels + ch holds bytes 2s and 2s + 1.
sampleBytes(req) ==
    [k \in 1..(2 * req.length * req.numChannels) |->
        LET s  == (k - 1) \div 2
            i  == s \div req.numChannels
            ch == s % req.numChannels
        IN  setInt16(quantize(sampleAt(req, ch, i)))[((k - 1) % 2) + 1]]

\* Math.max(1024, Math.floor(total / 200))
progressChunk(total) == Max(1024, total \div 200)

\* the progress messages of the first `frames` iterations of the sample loop,
\* one for each frame i with (i & 0xffff) === 0 || i % chunk === 0
progressLoop(total, frames) ==
    LET at == SelectSeq([i \in 1..frames |-> i - 1],
                        LAMBDA i : i % 65536 = 0 \/ i % progressChunk(total) = 0)
    IN  [k \in 1..Len(at) |-> [type |-> "progress", processed |-> at[k], total |-> total]]

\* frame i of the sample loop throws: channels[ch] is undefined (TypeError) or
\* view.setInt16 stores past the end of the ArrayBuffer (RangeError)
throwsAt(req, i) ==
    \E ch \in 0..(req.numChannels - 1) :
        \/ ch + 1 > Len(req.channels)
        \/ 44 + (i * req.numChannels + ch) * 2 + 2 > 44 + dataLengthOf(req)

\* the first frame that throws, or length when the loop runs to its end
firstThrow(req) ==
    LET failing == {i \in 0..(req.length - 1) : throwsAt(req, i)}
    IN  IF failing = {} THEN req.length
        ELSE CHOOSE i \in failing : \A j \in failing : i <= j

\* a handler whose final progress message is posted after the try statement
encodeFinalAfterCatch(req) ==
    LET final == [type |-> "progress", processed |-> req.length, total |-> req.length]
    IN  IF firstThrow(req) < req.length
        THEN progressLoop(req.length, firstThrow(req)) \o << [type |-> "error"], final >>
        ELSE progressLoop(req.length, req.length)
                 \o << [type |-> "done",
                        buffer |-> Store(Store(ArrayBuffer(44 + dataLengthOf(req)), 0,
                                               wavHeader(req)), 44, sampleBytes(req))],
                       final >>

\* the messages the handler posts for an 'encode' request: the progress of the
\* frames before the first one that throws and 'error' from the catch, or the
\* progress of every frame, the final progress and 'done'
encode(req) ==
    IF firstThrow(req) < req.length
    THEN progressLoop(req.length, firstThrow(req)) \o << [type |-> "error"] >>
    ELSE LET header == Store(ArrayBuffer(44 + dataLengthOf(req)), 0, wavHeader(req))
             buffer == Store(header, 44, sampleBytes(req))
         IN  progressLoop(req.length, req.length)
                 \o << [type |-> "progress", processed |-> req.length,
                        total |-> req.length],
                       [type |-> "done", buffer |-> buffer] >>

\* self.addEventListener('message', ...)
Encode ==
    /\ pc = "request"
    /\ request.type = "encode"
    /\ posted' = encode(request)
    /\ pc' = "encoded"
    /\ UNCHANGED <<vlqVars, inputVars, midiVars, tempoVars, mixVars, request,
                   parser, exportVars>>

----------------------------------------------------------------------------
(* Specification SpecWav: encode requests as exportWav posts them, one     *)
(* buffer of `length` samples per channel                                  *)

\* frames of a request whose samples vary
MaxFrames == 2

\* samples below, at and above the clamp bounds, and samples that scale to
\* -16384, -1.5, 0.5
SampleValues ==
    { Rat(-2, 1), Rat(-1, 1), Rat(-1, 2), Rat(-3, 65536), Zero,
      Rat(1, 65534), Rat(1, 1), Rat(3, 2) }

EncodeRequest(rate, nc, len, chans) ==
    [type |-> "encode", sampleRate |-> rate, numChannels |-> nc, length |-> len,
     bitsPerSample |-> 16, channels |-> chans]

\* silence at several rates and lengths; short buffers of varied samples
EncodeRequests ==
    { EncodeRequest(rate, nc, len, [c \in 1..nc |-> [i \in 1..len |-> Zero]]) :
          rate \in {8000, 44100, 48000}, nc \in {1, 2}, len \in {0, 1, 100} }
    \cup UNION { { EncodeRequest(44100, 1, len, <<left>>) :
                       left \in [1..len -> SampleValues] } : len \in 0..MaxFrames }
    \cup UNION { { EncodeRequest(44100, 2, len, <<left, right>>) :
                       left \in [1..len -> SampleValues],
                       right \in [1..len -> {Zero, Rat(1, 1)}] } : len \in 0..MaxFrames }

InitWav ==
    /\ pc = "request"
    /\ request \in EncodeRequests
    /\ posted = <<>>
    /\ value = 0 /\ vlq = <<>> /\ decoded = None
    /\ notes = <<>> /\ beats = <<>> /\ bpm = 120 /\ ticksPerQuarter = 480
    /\ midiFile = None /\ data = <<>> /\ logical = None /\ parsed = None /\ result = None
    /\ TempoIdle /\ MixIdle /\ ParserIdle /\ ExportIdle

NextWav == Encode

SpecWav == InitWav /\ [][NextWav]_vars

----------------------------------------------------------------------------
(* C19, C20 *)

\* the buffer of the 'done' message
WavBytes == posted[Len(posted)].buffer

Uint16At(d, pos) == At(d, pos) + 256 * At(d, pos + 1)

Uint32At(d, pos) ==
    At(d, pos) + 256 * At(d, pos + 1) + 65536 * At(d, pos + 2) + 16777216 * At(d, pos + 3)

Int16At(d, pos) ==
    IF Uint16At(d, pos) >= 32768 THEN Uint16At(d, pos) - 65536 ELSE Uint16At(d, pos)

\* C19: for every encode request (sampleRate, numChannels, length, 16 bits) the
\* output is 44 + dataLen bytes with dataLen = length * numChannels * 2; the
\* RIFF size at offset 4 is 36 + dataLen, audioFormat at offset 20 is 1,
\* blockAlign is numChannels * 2, byteRate is sampleRate * blockAlign and the
\* data size at offset 40 is dataLen; 44100 Hz, 2 channels, 100 frames give
\* dataLen 400 and RIFF size 436.
WavHeaderExact ==
    pc = "encoded" =>
        LET dataLen == request.length * request.numChannels * 2
        IN  /\ posted[Len(posted)].type = "done"
            /\ Len(WavBytes) = 44 + dataLen
            /\ Uint32At(WavBytes, 4) = 36 + dataLen
            /\ Uint16At(WavBytes, 20) = 1
            /\ Uint16At(WavBytes, 22) = request.numChannels
            /\ Uint32At(WavBytes, 24) = request.sampleRate
            /\ Uint32At(WavBytes, 28) = request.sampleRate * request.numChannels * 2
            /\ Uint16At(WavBytes, 32) = request.numChannels * 2
            /\ Uint16At(WavBytes, 34) = 16
            /\ Uint32At(WavBytes, 40) = dataLen
            /\ ( /\ request.sampleRate = 44100 /\ request.numChannels = 2
                 /\ request.length = 100 ) =>
                   /\ Uint32At(WavBytes, 40) = 400
                   /\ Uint32At(WavBytes, 4) = 436

WavHeaderExactWitness ==
    /\ pc = "encoded"
    /\ request.sampleRate = 44100 /\ request.numChannels = 2 /\ request.length = 100
    /\ Len(WavBytes) = 444
    /\ SubSeq(WavBytes, 1, 8) = <<82, 73, 70, 70, 180, 1, 0, 0>>
    /\ SubSeq(WavBytes, 41, 44) = <<144, 1, 0, 0>>

\* C20: every sample is clamped to [-1, 1], scaled by 0x8000 if negative and by
\* 0x7FFF otherwise and rounded to the nearest integer, so the stored value
\* lies in [-32768, 32767], -1 and anything below gives -32768, +1 and anything
\* above gives 32767, 0 gives 0; the sample of frame i, channel ch is stored
\* little-endian at byte offset 44 + (i * numChannels + ch) * 2.
WavQuantization ==
    pc = "encoded" =>
        \A i \in 0..(request.length - 1) : \A ch \in 0..(request.numChannels - 1) :
            LET sample  == request.channels[ch + 1][i + 1]
                stored  == Int16At(WavBytes, 44 + (i * request.numChannels + ch) * 2)
                clamped == IF sample.num > sample.den THEN Rat(1, 1)
                           ELSE IF sample.num < -sample.den THEN Rat(-1, 1)
                           ELSE sample
                scale   == IF clamped.num < 0 THEN 32768 ELSE 32767
            IN  /\ stored >= -32768 /\ stored <= 32767
                /\ 2 * Abs(stored * clamped.den - clamped.num * scale) <= clamped.den
                /\ sample.num <= -sample.den => stored = -32768
                /\ sample.num >= sample.den => stored = 32767
                /\ sample.num = 0 => stored = 0

\* frame 1 of two channels: a sample below -1 on the left, +1 on the right
WavQuantizationWitness ==
    /\ pc = "encoded"
    /\ request.numChannels = 2 /\ request.length = 2
    /\ request.channels = << <<Rat(-1, 2), Rat(-2, 1)>>, <<Zero, Rat(1, 1)>> >>
    /\ SubSeq(WavBytes, 45, 52) = <<0, 192, 0, 0, 0, 128, 255, 127>>

----------------------------------------------------------------------------
(* Specification SpecWorker: every kind of message the worker's listener   *)
(* can receive, well-formed or not                                         *)

\* if (!data || data.type !== 'encode') return;
Ignore ==
    /\ pc = "request"
    /\ request.type # "encode"
    /\ pc' = "ignored"
    /\ UNCHANGED <<vlqVars, inputVars, midiVars, tempoVars, mixVars, wavVars, parser, exportVars>>

\* a length that spans more than two progress chunks of 1024 frames
LongLength == 2049

\* requests exportWav never posts: a channel buffer missing, a sample width
\* other than 16 bits, a message of another type
OddRequests ==
    { [EncodeRequest(44100, nc, len, [c \in 1..have |-> [i \in 1..len |-> Zero]])
           EXCEPT !.bitsPerSample = bits] :
          nc \in {1, 2}, have \in 0..2, len \in {0, 1, 2, 3, LongLength},
          bits \in {0, 8, 16, 32} }
    \cup { [type |-> t, sampleRate |-> 44100, numChannels |-> 1, length |-> len,
            bitsPerSample |-> 16, channels |-> <<[i \in 1..len |-> Zero]>>] :
               t \in {"cancel", "progress"}, len \in {0, 1} }

InitWorker ==
    /\ pc = "request"
    /\ request \in EncodeRequests \cup OddRequests
    /\ posted = <<>>
    /\ value = 0 /\ vlq = <<>> /\ decoded = None
    /\ notes = <<>> /\ beats = <<>> /\ bpm = 120 /\ ticksPerQuarter = 480
    /\ midiFile = None /\ data = <<>> /\ logical = None /\ parsed = None /\ result = None
    /\ TempoIdle /\ MixIdle /\ ParserIdle /\ ExportIdle

NextWorker == Encode \/ Ignore

SpecWorker == InitWorker /\ [][NextWorker]_vars

----------------------------------------------------------------------------
(* C21, C22 *)

IsTerminal(m) == m.type \in {"done", "error"}

\* C21: for every 'encode' message the worker posts exactly one terminal
\* message, 'done' or 'error'; it is the last message posted, so no 'progress'
\* follows it, and a 'done' is immediately preceded by a 'progress' whose
\* processed equals total.
OneTerminalMessage ==
    pc = "encoded" =>
        LET n == Len(posted)
        IN  /\ n >= 1
            /\ IsTerminal(posted[n])
            /\ \A k \in 1..(n - 1) : posted[k].type = "progress"
            /\ posted[n].type = "done" =>
                   /\ n >= 2
                   /\ posted[n - 1].processed = posted[n - 1].total
                   /\ posted[n - 1].total = request.length

\* a store past the end of the buffer in frame 1024, after the progress of
\* frame 0, ends the encode with 'error'
OneTerminalMessageWitness ==
    /\ pc = "encoded"
    /\ request.bitsPerSample = 8 /\ request.length = LongLength
    /\ Len(posted) = 2
    /\ posted[1].type = "progress" /\ posted[2].type = "error"

\* the progress messages of the sample loop: every message before the final
\* progress and the terminal message
LoopProgress ==
    IF posted[Len(posted)].type = "done" THEN SubSeq(posted, 1, Len(posted) - 2)
    ELSE SubSeq(posted, 1, Len(posted) - 1)

\* C22: consecutive non-final 'progress' messages of one encode are at least
\* max(65536, floor(total / 200)) samples apart, and an encode posts at most
\* about 200 progress messages.
ProgressAtCoarserCadence ==
    pc = "encoded" =>
        /\ \A k \in 1..(Len(LoopProgress) - 1) :
               LoopProgress[k + 1].processed - LoopProgress[k].processed
                   >= Max(65536, request.length \div 200)
        /\ Len(LoopProgress) <= 201

----------------------------------------------------------------------------
(* MidiParser.parse, step by step: one action per chunk read, per          *)
(* iteration of parseTrack's loop and per exit                             *)

\* the parser at parse(): this.pos = 0
ParserStart ==
    [phase |-> "header", pos |-> 0, format |-> 0, trackCount |-> 0, division |-> 0,
     i |-> 0, tracks |-> <<>>, trackData |-> <<>>, trackPos |-> 0,
     runningStatus |-> 0, events |-> <<>>]

\* an exception leaves parse(), the file cursor at pos
Throw(pos) ==
    /\ parser' = [parser EXCEPT !.phase = "thrown", !.pos = pos]
    /\ parsed' = Thrown
    /\ pc' = "parsed"

\* the header chunk and the two checks on it
ReadHeader ==
    /\ pc = "parsing" /\ parser.phase = "header"
    /\ LET headerChunk == readChunk(data, parser.pos)
       IN  IF headerChunk.type # MThd \/ Len(headerChunk.data) # 6
           THEN Throw(headerChunk.pos)
           ELSE /\ parser' = [parser EXCEPT
                                 !.phase = "chunk", !.pos = headerChunk.pos,
                                 !.format = readUint16(headerChunk.data, 0),
                                 !.trackCount = readUint16(headerChunk.data, 2),
                                 !.division = readUint16(headerChunk.data, 4)]
                /\ UNCHANGED <<pc, parsed>>
    /\ UNCHANGED <<vlqVars, inputVars, midiFile, data, logical, result,
                   tempoVars, mixVars, wavVars, exportVars>>

\* for (let i = 0; i < trackCount; i++): readChunk and the check of its id
ReadTrackChunk ==
    /\ pc = "parsing" /\ parser.phase = "chunk"
    /\ parser.i < parser.trackCount
    /\ LET trackChunk == readChunk(data, parser.pos)
       IN  IF trackChunk.type # MTrk
           THEN Throw(trackChunk.pos)
           ELSE /\ parser' = [parser EXCEPT
                                 !.phase = "track", !.pos = trackChunk.pos,
                                 !.trackData = trackChunk.data, !.trackPos = 0,
                                 !.runningStatus = 0, !.events = <<>>]
                /\ UNCHANGED <<pc, parsed>>
    /\ UNCHANGED <<vlqVars, inputVars, midiFile, data, logical, result,
                   tempoVars, mixVars, wavVars, exportVars>>

\* while (pos < data.length): one event
ParseTrackEvent ==
    /\ pc = "parsing" /\ parser.phase = "track"
    /\ parser.trackPos < Len(parser.trackData)
    /\ LET r == parseEvent(parser.trackData, parser.trackPos, parser.runningStatus)
       IN  IF r.thrown
           THEN Throw(parser.pos)
           ELSE /\ parser' = [parser EXCEPT
                                 !.trackPos = r.pos, !.runningStatus = r.runningStatus,
                                 !.events = Append(parser.events, r.event)]
                /\ UNCHANGED <<pc, parsed>>
    /\ UNCHANGED <<vlqVars, inputVars, midiFile, data, logical, result,
                   tempoVars, mixVars, wavVars, exportVars>>

\* parseTrack returns: midiFile.tracks.push(track)
EndTrack ==
    /\ pc = "parsing" /\ parser.phase = "track"
    /\ ~(parser.trackPos < Len(parser.trackData))
    /\ parser' = [parser EXCEPT !.phase = "chunk", !.i = parser.i + 1,
                                !.tracks = Append(parser.tracks,
                                                  [events |-> parser.events])]
    /\ UNCHANGED <<pc, vlqVars, inputVars, midiVars, tempoVars, mixVars, wavVars,
                   exportVars>>

\* return midiFile
ReturnMidiFile ==
    /\ pc = "parsing" /\ parser.phase = "chunk"
    /\ ~(parser.i < parser.trackCount)
    /\ parser' = [parser EXCEPT !.phase = "returned"]
    /\ parsed' = [format |-> parser.format, tracks |-> parser.tracks,
                  ticksPerQuarter |-> parser.division]
    /\ pc' = "parsed"
    /\ UNCHANGED <<vlqVars, inputVars, midiFile, data, logical, result,
                   tempoVars, mixVars, wavVars, exportVars>>

----------------------------------------------------------------------------
(* Specification SpecParseSteps: damaged files, and one-track files whose  *)
(* track is any short string of status and data bytes                      *)

\* bytes of a raw track
MaxRawBytes == 5

\* data bytes, a handled status (NoteOn), a status the parser does not handle
RawBytes == {0, 5, 144, 160}

RawFiles ==
    { createChunk(MThd, writeUint16(0) \o writeUint16(1) \o writeUint16(480))
          \o createChunk(MTrk, t) : t \in SeqsUpTo(RawBytes, MaxRawBytes) }

InitParseSteps ==
    /\ pc = "parsing"
    /\ data \in DamagedBytes \cup RawFiles
    /\ parser = ParserStart
    /\ value = 0 /\ vlq = <<>> /\ decoded = None
    /\ notes = <<>> /\ beats = <<>> /\ bpm = 120 /\ ticksPerQuarter = 480
    /\ midiFile = None /\ logical = None /\ parsed = None /\ result = None
    /\ TempoIdle /\ MixIdle /\ WavIdle /\ ExportIdle

NextParseSteps ==
    ReadHeader \/ ReadTrackChunk \/ ParseTrackEvent \/ EndTrack \/ ReturnMidiFile

SpecParseSteps == InitParseSteps /\ [][NextParseSteps]_vars

\* parse() is one synchronous call: it runs on while it has a step to take
SpecParseStepsFair == SpecParseSteps /\ WF_vars(NextParseSteps)

\* the steps end in what parse(data) gives
StepsAgreeWithParse == pc = "parsed" => parsed = parse(data)

----------------------------------------------------------------------------
(* C23, C28 *)

\* 0x8n, 0x9n, 0xBn, 0xCn, 0xEn, 0xFF, 0xF0, 0xF7
Handled(status) ==
    \/ status \in 128..159 \/ status \in 176..207 \/ status \in 224..239
    \/ status \in {255, 240, 247}

\* the delta time of the event at the track cursor
DeltaAhead == readVariableLength(parser.trackData, parser.trackPos)

\* the byte after that delta time
FirstAhead == At(parser.trackData, parser.trackPos + DeltaAhead.bytesRead)

\* the effective status of the event at the track cursor: the byte after the
\* delta time, or the running status when that byte is below 0x80
StatusAhead == IF FirstAhead >= 128 THEN FirstAhead ELSE parser.runningStatus

\* the loop is about to parse an event whose status byte or running status
\* is not one of the handled kinds
UnknownAhead ==
    /\ pc = "parsing" /\ parser.phase = "track"
    /\ parser.trackPos < Len(parser.trackData)
    /\ FirstAhead # undefined
    /\ ~Handled(StatusAhead)

\* C23: when the effective status of an event is not one of the handled kinds
\* the parser does not fail: it appends one event of type unknown, moves the
\* cursor over the status byte (if the event has one) and exactly one byte
\* more, and goes on with the rest of the track from the byte after that.
UnknownStatusSkipsOneByte ==
    [][UnknownAhead =>
          /\ parser'.phase = "track"
          /\ parser'.trackData = parser.trackData
          /\ parser'.events =
                 Append(parser.events, [deltaTime |-> DeltaAhead.value, type |-> "unknown"])
          /\ parser'.trackPos =
                 parser.trackPos + DeltaAhead.bytesRead
                     + (IF FirstAhead >= 128 THEN 1 ELSE 0) + 1]_vars

\* 0xA0 with one byte skipped, then a data byte under the running status
\* 0xA0: two unknown events, and the parse returns
UnknownStatusSkipsOneByteWitness ==
    /\ pc = "parsed"
    /\ parser.phase = "returned"
    /\ parser.trackData = <<0, 160, 5, 0, 5>>
    /\ parsed.tracks = << [events |-> <<UnknownEv(0), UnknownEv(0)>>] >>

\* a step that read a chunk moved the file cursor by 8 bytes or more; a step
\* that parsed an event moved the track cursor by one byte or more
CursorAdvances ==
    /\ ( /\ pc = "parsing" /\ parser.phase \in {"header", "chunk"}
         /\ parser'.phase # "returned" ) => parser'.pos >= parser.pos + 8
    /\ ( /\ pc = "parsing" /\ parser.phase = "track"
         /\ parser'.phase = "track" ) => parser'.trackPos >= parser.trackPos + 1

\* C28: parse terminates on every finite byte array, throwing or returning:
\* every iteration of the track-event loop advances the track cursor by at
\* least one byte and every chunk read advances the file cursor by at least 8.
ParseTerminates ==
    /\ [][parser' # parser => CursorAdvances]_vars
    /\ <>(pc = "parsed")

\* a two-track file cut inside its second track: 3 chunks read, 3 events parsed
ParseTerminatesWitness ==
    /\ pc = "parsed"
    /\ parser.phase = "returned"
    /\ parser.i = 2
    /\ parser.pos > Len(data)
    /\ Len(parser.tracks[1].events) = 2

----------------------------------------------------------------------------
(* Sequencer.exportWav up to the mixdown: calculateDuration, then the      *)
(* precompute pass of renderMixToAudioBuffer, which runs inside the call   *)

\* samples per second of the render
SampleRate == 2

\* private quantization: number = 0.5, in BeatDen-ths of a beat
quantization == BeatDen \div 2

Floor(r) == r.num \div r.den

Ceil(r) == -((-r.num) \div r.den)

RECURSIVE MaxOf(_)
MaxOf(S) == IF S = {} THEN 0
            ELSE LET x == CHOOSE y \in S : TRUE IN Max(x, MaxOf(S \ {x}))

\* the largest of 0, start + length of the notes, position + quantization of
\* the beats
getEndOfTrack(ns, bs) ==
    MaxOf({ns[i].start + ns[i].length : i \in 1..Len(ns)}
              \cup {bs[i].position + quantization : i \in 1..Len(bs)})

\* (beats * 60) / (segBpm * this.playbackSpeed), beats in BeatDen-ths
segmentSeconds(segBeats, segBpm, speed) ==
    Rat(segBeats * 60 * speed.den, BeatDen * segBpm * speed.num)

RECURSIVE durationLoop(_, _, _, _)
durationLoop(m, order, speed, i) ==
    IF i > Len(order) - 1 THEN Zero
    ELSE RatAdd(segmentSeconds(order[i + 1] - order[i], m[order[i]], speed),
                durationLoop(m, order, speed, i + 1))

\* calculateDuration: the entries of this.bpms in insertion order
calculateDuration(b, m, order, speed, endOfTrack) ==
    IF Len(order) > 0
    THEN LET lastBeat == order[Len(order)]
         IN  RatAdd(durationLoop(m, order, speed, 1),
                    segmentSeconds(endOfTrack - lastBeat, m[lastBeat], speed))
    ELSE segmentSeconds(endOfTrack, b, speed)

\* a sine sample, or a decoded file of srcLen samples at the output's rate
SineSample == [type |-> "sine"]

FileSample(len) == [type |-> "file", srcLen |-> len]

\* this.melodySamples.get(filename)?.get(note.pitch): every melody sample
\* has entries for the pitches 21..108 and no other; a track without a
\* filename plays 'sine'
melodySample(smp, note) ==
    IF note.pitch < 21 \/ note.pitch > 108 THEN None
    ELSE IF note.track \in DOMAIN smp.melody THEN smp.melody[note.track]
    ELSE SineSample

\* this.beatSamples.get(beat.track)
beatSample(smp, beat) ==
    IF beat.track \in DOMAIN smp.beat THEN smp.beat[beat.track] ELSE None

\* Math.pow(2, (midiNote - 60) / 12) for C4 and the Cs above it, the pitches
\* of the notes played from a file here; no pitch shift set
RECURSIVE midiToPercentage(_)
midiToPercentage(midiNote) ==
    IF midiNote <= 60 THEN 1 ELSE 2 * midiToPercentage(midiNote - 12)

\* masterGain * (velocity / 127) * style, style 1/2 for notes, 7/10 for beats
gainOf(velocity, style) == RatMul(Rat(7 * velocity, 1270), style)

\* the NoteInfo of a note, or None for a note without a sample
noteInfoOf(note, entries, speed, smp, total) ==
    LET sample      == melodySample(smp, note)
        secs        == beatRangeToSeconds(entries, speed, note.start, note.length)
        startSample == Floor(RatMul(secs.startSec, Rat(SampleRate, 1)))
        endSample   == Min(total, startSample
                                      + Ceil(RatMul(secs.durationSec, Rat(SampleRate, 1))))
        gain        == gainOf(note.velocity, Rat(1, 2))
    IN  IF sample = None THEN None
        ELSE IF sample.type = "file"
        THEN [startSample |-> startSample, endSample |-> endSample, isSine |-> FALSE,
              srcLen |-> sample.srcLen, playbackRate |-> midiToPercentage(note.pitch),
              gain |-> gain]
        ELSE [startSample |-> startSample, endSample |-> endSample, isSine |-> TRUE,
              frequency |-> [midiToFrequency |-> note.pitch],
              durationSec |-> secs.durationSec, gain |-> gain]

\* the BeatInfo of a beat, or None; a beat lasts 0.2 s
beatInfoOf(beat, entries, speed, smp, total) ==
    LET sample      == beatSample(smp, beat)
        startSec    == beatPosToSeconds(entries, speed, beat.position)
        startSample == Floor(RatMul(startSec, Rat(SampleRate, 1)))
        endSample   == Min(total, startSample + Ceil(Rat(SampleRate, 5)))
        gain        == gainOf(beat.velocity, Rat(7, 10))
    IN  IF sample = None THEN None
        ELSE IF sample.type = "file"
        THEN [startSample |-> startSample, endSample |-> endSample, isSine |-> FALSE,
              srcLen |-> sample.srcLen, gain |-> gain]
        ELSE [startSample |-> startSample, endSample |-> endSample, isSine |-> TRUE,
              frequency |-> IF beat.track = 0 THEN 200 ELSE 150, gain |-> gain]

\* params.notes.forEach(...): the infos of the notes that have a sample
precomputeNotes(ns, entries, speed, smp, total) ==
    SelectSeq([k \in 1..Len(ns) |-> noteInfoOf(ns[k], entries, speed, smp, total)],
              LAMBDA x : x # None)

precomputeBeats(bs, entries, speed, smp, total) ==
    SelectSeq([k \in 1..Len(bs) |-> beatInfoOf(bs[k], entries, speed, smp, total)],
              LAMBDA x : x # None)

\* exportWav's bookkeeping: the samplesProcessed the render reported, the
\* values passed to modal.update, the worker messages handled, the calls of
\* modal.destroy, worker.terminate and a.click, the edits made meanwhile
CallerStart ==
    [reports |-> <<>>, updates |-> <<>>, handled |-> 0, destroyed |-> 0,
     terminated |-> 0, downloads |-> 0, edits |-> 0]

\* the argument object of renderMixToAudioBuffer, as exportWav builds it
paramsOf(duration) ==
    [notes |-> notes, beats |-> beats, bpm |-> bpm, bpms |-> bpms,
     playbackSpeed |-> playbackSpeed, samples |-> samples, duration |-> duration]

\* exportWav: nothing to export, or the progress dialog and the call of
\* renderMixToAudioBuffer, which allocates the outputs (a negative length
\* throws) and precomputes the infos before it yields
ExportWav ==
    /\ pc = "export"
    /\ LET endOfTrack == getEndOfTrack(notes, beats)
           duration   == calculateDuration(bpm, bpms, bpmsOrder, playbackSpeed, endOfTrack)
           total      == Ceil(RatMul(duration, Rat(SampleRate, 1)))
           entries    == bpmEntries(bpm, bpms)
       IN  IF endOfTrack <= 0
           THEN /\ pc' = "noData"
                /\ UNCHANGED <<mixVars, exportVars>>
           ELSE IF total < 0
           THEN /\ pc' = "failed"
                /\ params' = paramsOf(duration)
                /\ caller' = CallerStart
                /\ totalSamples' = total
                /\ UNCHANGED <<noteInfos, beatInfos, blockSize, blockStart, outputs,
                               samples>>
           ELSE /\ pc' = "mix"
                /\ params' = paramsOf(duration)
                /\ caller' = CallerStart
                /\ totalSamples' = total
                /\ outputs' = [j \in 1..total |-> <<>>]
                /\ noteInfos' = precomputeNotes(notes, entries, playbackSpeed, samples, total)
                /\ beatInfos' = precomputeBeats(beats, entries, playbackSpeed, samples, total)
                /\ blockStart' = 0
                /\ UNCHANGED <<blockSize, samples>>
    /\ UNCHANGED <<vlqVars, inputVars, midiVars, tempoVars, wavVars, parser>>

RatMin(a, b) == IF RatLE(a, b) THEN a ELSE b

\* the list the block loop walks, rebuilt for every block from this.notes
loopNoteInfosLive ==
    precomputeNotes(notes, bpmEntries(bpm, bpms), playbackSpeed, samples, totalSamples)

\* for (const ni of noteInfos): the list built before the loop
loopNoteInfos == noteInfos

\* for (const bi of beatInfos)
loopBeatInfos == beatInfos

\* one block of the loop with exportWav's onProgress: the block is mixed,
\* onProgress(Math.min(blockEnd, totalSamples), totalSamples) passes
\* Math.min(90, mixPct * 0.9) to modal.update, and the render yields
MixBlockReport ==
    /\ pc = "mix"
    /\ blockStart < totalSamples
    /\ LET blockEnd  == Min(totalSamples, blockStart + blockSize)
           processed == Min(blockEnd, totalSamples)
           mixPct    == Rat(processed * 100, totalSamples)
       IN  /\ outputs' = mixBlock(outputs, loopNoteInfos, loopBeatInfos, blockStart, blockEnd)
           /\ caller' = [caller EXCEPT
                            !.reports = Append(@, processed),
                            !.updates = Append(@, RatMin(Rat(90, 1),
                                                         RatMul(mixPct, Rat(9, 10))))]
    /\ blockStart' = blockStart + blockSize
    /\ UNCHANGED <<pc, vlqVars, inputVars, midiVars, tempoVars, noteInfos, beatInfos,
                   totalSamples, blockSize, wavVars, parser, samples, params>>

----------------------------------------------------------------------------
(* Edits of the sequencer's state while the render waits in                 *)
(* await new Promise(resolve => setTimeout(resolve, 0))                     *)

\* edits during one render
MaxEdits == 1

\* the render has yielded and an edit may run
AtYield == pc = "mix" /\ blockStart > 0 /\ caller.edits < MaxEdits

Edited == caller' = [caller EXCEPT !.edits = @ + 1]

AddNote ==
    /\ AtYield
    /\ notes' = Append(notes, Note(0, 69, 0, 2 * BeatDen, 100))
    /\ Edited
    /\ UNCHANGED <<pc, vlqVars, beats, bpm, ticksPerQuarter, midiVars, tempoVars,
                   mixVars, wavVars, parser, samples, params>>

MoveNote ==
    /\ AtYield
    /\ \E k \in 1..Len(notes) :
           notes' = [notes EXCEPT ![k].start = @ + quantization, ![k].pitch = 72]
    /\ Edited
    /\ UNCHANGED <<pc, vlqVars, beats, bpm, ticksPerQuarter, midiVars, tempoVars,
                   mixVars, wavVars, parser, samples, params>>

DeleteNote ==
    /\ AtYield
    /\ \E k \in 1..Len(notes) :
           notes' = SubSeq(notes, 1, k - 1) \o SubSeq(notes, k + 1, Len(notes))
    /\ Edited
    /\ UNCHANGED <<pc, vlqVars, beats, bpm, ticksPerQuarter, midiVars, tempoVars,
                   mixVars, wavVars, parser, samples, params>>

AddBeat ==
    /\ AtYield
    /\ beats' = Append(beats, Beat(1, 0, 100))
    /\ Edited
    /\ UNCHANGED <<pc, vlqVars, notes, bpm, ticksPerQuarter, midiVars, tempoVars,
                   mixVars, wavVars, parser, samples, params>>

MoveBeat ==
    /\ AtYield
    /\ \E k \in 1..Len(beats) :
           beats' = [beats EXCEPT ![k].position = @ + quantization]
    /\ Edited
    /\ UNCHANGED <<pc, vlqVars, notes, bpm, ticksPerQuarter, midiVars, tempoVars,
                   mixVars, wavVars, parser, samples, params>>

DeleteBeat ==
    /\ AtYield
    /\ \E k \in 1..Len(beats) :
           beats' = SubSeq(beats, 1, k - 1) \o SubSeq(beats, k + 1, Len(beats))
    /\ Edited
    /\ UNCHANGED <<pc, vlqVars, notes, bpm, ticksPerQuarter, midiVars, tempoVars,
                   mixVars, wavVars, parser, samples, params>>

ChangeBpm ==
    /\ AtYield
    /\ bpm' \in {60, 240} \ {bpm}
    /\ Edited
    /\ UNCHANGED <<pc, vlqVars, notes, beats, ticksPerQuarter, midiVars, tempoVars,
                   mixVars, wavVars, parser, samples, params>>

\* this.bpms = new Map(): the tempo map is cleared
ChangeTempoMap ==
    /\ AtYield
    /\ bpms # <<>>
    /\ bpms' = <<>> /\ bpmsOrder' = <<>>
    /\ Edited
    /\ UNCHANGED <<pc, vlqVars, inputVars, midiVars, playbackSpeed, startBeat,
                   lengthBeats, seconds, mixVars, wavVars, parser, samples, params>>

ChangePlaybackSpeed ==
    /\ AtYield
    /\ playbackSpeed' \in {Rat(1, 2), Rat(2, 1)} \ {playbackSpeed}
    /\ Edited
    /\ UNCHANGED <<pc, vlqVars, inputVars, midiVars, bpms, bpmsOrder, startBeat,
                   lengthBeats, seconds, mixVars, wavVars, parser, samples, params>>

\* setMelodyAudio, setBeatSample: another file for track 1 and for beat 1
AssignSample ==
    /\ AtYield
    /\ \/ samples' = [samples EXCEPT !.melody = [t \in {1} |-> FileSample(1)]]
       \/ samples' = [samples EXCEPT !.beat = [@ EXCEPT ![0] = FileSample(3)]]
    /\ Edited
    /\ UNCHANGED <<pc, vlqVars, inputVars, midiVars, tempoVars, mixVars, wavVars,
                   parser, params>>

----------------------------------------------------------------------------
(* Specification SpecRender: exportWav from the sequencer's state to the   *)
(* mixed buffer, with edits at the yields                                  *)

\* notes per list of a render
MaxRenderNotes == 2

\* pitches at and outside the ends of 21..108; velocities inside and outside
\* 0..127; track 1 plays C4 and C5
RenderNoteValues ==
    { Note(0, 21, 0, BeatDen, 100), Note(0, 109, 0, 2 * BeatDen, 100),
      Note(0, 20, quantization, BeatDen, 64), Note(1, 60, 0, 2 * BeatDen, 200),
      Note(1, 72, BeatDen, 3 * BeatDen, -1) }

\* beat track 2 has no sample
RenderBeatValues == { Beat(0, 0, 100), Beat(1, BeatDen + quantization, 300), Beat(2, BeatDen, 100) }

\* no tempo map; one entry at beat 0; one entry after beat 0; two entries,
\* the later one inside or beyond the timeline
RenderTempoMaps ==
    { <<>>, [b \in {0} |-> 60], [b \in {2 * BeatDen} |-> 60],
      [b \in {0, BeatDen} |-> IF b = 0 THEN 120 ELSE 60],
      [b \in {0, 4 * BeatDen} |-> IF b = 0 THEN 120 ELSE 60] }

\* every track on the sine sample; files on melody track 1 and beat track 0
RenderSamples ==
    { [melody |-> <<>>, beat |-> [t \in {0, 1} |-> SineSample]],
      [melody |-> [t \in {1} |-> FileSample(2)],
       beat   |-> [t \in {0, 1} |-> IF t = 0 THEN FileSample(1) ELSE SineSample]] }

InitRender ==
    /\ pc = "export"
    /\ notes \in SeqsUpTo(RenderNoteValues, MaxRenderNotes)
    /\ beats \in SeqsUpTo(RenderBeatValues, 1)
    /\ bpm = 120
    /\ bpms \in RenderTempoMaps
    /\ bpmsOrder \in Orders(DOMAIN bpms)
    /\ playbackSpeed \in {Rat(1, 1), Rat(2, 1)}
    /\ samples \in RenderSamples
    /\ blockSize \in {2, RenderBlockSize}
    /\ params = None /\ caller = None
    /\ startBeat = 0 /\ lengthBeats = 0 /\ seconds = None
    /\ noteInfos = <<>> /\ beatInfos = <<>> /\ totalSamples = 0
    /\ blockStart = 0 /\ outputs = <<>>
    /\ value = 0 /\ vlq = <<>> /\ decoded = None
    /\ ticksPerQuarter = 480
    /\ midiFile = None /\ data = <<>> /\ logical = None /\ parsed = None /\ result = None
    /\ WavIdle /\ ParserIdle

NextRender ==
    \/ ExportWav \/ MixBlockReport \/ ReturnBuffer
    \/ AddNote \/ MoveNote \/ DeleteNote \/ AddBeat \/ MoveBeat \/ DeleteBeat
    \/ ChangeBpm \/ ChangeTempoMap \/ ChangePlaybackSpeed \/ AssignSample

SpecRender == InitRender /\ [][NextRender]_vars

----------------------------------------------------------------------------
(* C30 *)

\* the renderer's beat-to-seconds value of the end of the track, for the
\* arguments of the call
RendererEndSeconds ==
    beatPosToSeconds(bpmEntries(params.bpm, params.bpms), params.playbackSpeed,
                     getEndOfTrack(params.notes, params.beats))

\* C30: the duration exportWav passes to the renderer equals the renderer's
\* own beat-to-seconds value of the end of the track, for every tempo map and
\* playback speed, so that totalSamples cuts no note's or beat's end by more
\* than the rounding of one sample.
DurationCoversTimeline ==
    params # None =>
        LET entries == bpmEntries(params.bpm, params.bpms)
            uncut(k) == noteInfoOf(params.notes[k], entries, params.playbackSpeed,
                                   params.samples, 1000000)
        IN  /\ params.duration = RendererEndSeconds
            /\ \A k \in 1..Len(params.notes) :
                   uncut(k) # None => uncut(k).endSample <= totalSamples + 1

----------------------------------------------------------------------------
(* C24 *)

\* the nearest value in lo..hi
Saturate(x, lo, hi) == Max(lo, Min(hi, x))

\* C24 (render): out-of-range inputs saturate instead of being dropped: every
\* note of the call has a NoteInfo, that of the note with its pitch brought
\* into 21..108 and its velocity into 0..127, and every beat that has a
\* sample has the BeatInfo of the beat with its velocity brought into 0..127.
OutOfRangeSaturates ==
    (params # None /\ pc = "mix") =>
        LET entries == bpmEntries(params.bpm, params.bpms)
            near(n) == [n EXCEPT !.pitch = Saturate(@, 21, 108),
                                 !.velocity = Saturate(@, 0, 127)]
            loud(b) == [b EXCEPT !.velocity = Saturate(@, 0, 127)]
        IN  /\ noteInfos =
                   precomputeNotes([k \in 1..Len(params.notes) |-> near(params.notes[k])],
                                   entries, params.playbackSpeed, params.samples,
                                   totalSamples)
            /\ beatInfos =
                   precomputeBeats([k \in 1..Len(params.beats) |-> loud(params.beats[k])],
                                   entries, params.playbackSpeed, params.samples,
                                   totalSamples)

----------------------------------------------------------------------------
(* C27 *)

\* the output of a render of the call's arguments that never yields: the
\* infos of params, mixed in one block
UnyieldedRender ==
    LET entries == bpmEntries(params.bpm, params.bpms)
    IN  mixBlock([j \in 1..totalSamples |-> <<>>],
                 precomputeNotes(params.notes, entries, params.playbackSpeed,
                                 params.samples, totalSamples),
                 precomputeBeats(params.beats, entries, params.playbackSpeed,
                                 params.samples, totalSamples),
                 0, totalSamples)

\* C27: edits that interleave with a running mixdown at its yields (notes and
\* beats added, moved or deleted, bpm, tempo map, playback speed or a sample
\* changed) do not change what the render produces: the output equals that of
\* a render without yields on the inputs as they were at the call.
EditsLeaveRenderUnchanged ==
    pc = "mixed" =>
        /\ totalSamples = Ceil(RatMul(params.duration, Rat(SampleRate, 1)))
        /\ outputs = UnyieldedRender

\* a render of two sounding notes in blocks of 2 samples, one of the notes
\* deleted at a yield
EditsLeaveRenderUnchangedWitness ==
    /\ pc = "mixed"
    /\ caller.edits = 1
    /\ blockSize = 2 /\ totalSamples > 2
    /\ Len(params.notes) = 2 /\ Len(notes) = 1
    /\ Len(noteInfos) = 2
    /\ \E i \in 3..totalSamples : Len(outputs[i]) >= 2

----------------------------------------------------------------------------
(* Sequencer.exportWav after the mixdown: the worker is created, the       *)
(* encode request posted and the worker's messages handled one by one      *)

\* what a Float32 of the mixed buffer may hold where voices were added: the
\* mix is a sum of sines and resampled files that is not computed here
MixedValues == {Rat(1, 2), Rat(-3, 2)}

\* new Float32Array(buffer.getChannelData(i)): a sample nothing was added to
\* is 0; the sources are mono, so both channels hold the same samples
channelsOf(out) ==
    LET mixed == {i \in 1..Len(out) : out[i] # <<>>}
    IN  { << [i \in 1..Len(out) |-> IF i \in mixed THEN g[i] ELSE Zero],
             [i \in 1..Len(out) |-> IF i \in mixed THEN g[i] ELSE Zero] >> :
              g \in [mixed -> MixedValues] }

\* worker.postMessage({type: 'encode', sampleRate, numChannels, length,
\* bitsPerSample: 16, channels: transferList}, transferList)
PostEncode ==
    /\ pc = "mixed"
    /\ \E chans \in channelsOf(outputs) :
           request' = EncodeRequest(44100, 2, totalSamples, chans)
    /\ pc' = "request"
    /\ UNCHANGED <<vlqVars, inputVars, midiVars, tempoVars, mixVars, posted,
                   parser, exportVars>>

\* new ArrayBuffer(bufferLength) fails for want of memory: the RangeError is
\* caught and 'error' posted
EncodeAllocationFails ==
    /\ pc = "request"
    /\ request.type = "encode"
    /\ posted' = << [type |-> "error"] >>
    /\ pc' = "encoded"
    /\ UNCHANGED <<vlqVars, inputVars, midiVars, tempoVars, mixVars, request,
                   parser, exportVars>>

\* an overall percentage that counts the encode from 0
overallOfEncodeAlone(processed, total) == Rat(processed * 100, total)

\* 90 + (processed / total) * 10
overallOf(processed, total) == RatAdd(Rat(90, 1), Rat(processed * 10, total))

\* an onmessage whose 'error' branch closes the dialog and leaves the worker
handleMessageLeavingWorker(c, m, length) ==
    LET next == [c EXCEPT !.handled = @ + 1]
    IN  IF m.type = "progress"
        THEN [next EXCEPT !.updates =
                 Append(@, overallOf(m.processed, IF m.total = 0 THEN length ELSE m.total))]
        ELSE IF m.type = "done"
        THEN [next EXCEPT !.downloads = @ + 1, !.destroyed = @ + 1, !.terminated = @ + 1]
        ELSE IF m.type = "error"
        THEN [next EXCEPT !.destroyed = @ + 1]
        ELSE next

\* worker.onmessage: progress updates the dialog with data.processed || 0 over
\* data.total || length; done makes the Blob, clicks the download link, closes
\* the dialog and terminates the worker; error closes and terminates
handleMessage(c, m, length) ==
    LET next == [c EXCEPT !.handled = @ + 1]
    IN  IF m.type = "progress"
        THEN [next EXCEPT !.updates =
                 Append(@, overallOf(m.processed, IF m.total = 0 THEN length ELSE m.total))]
        ELSE IF m.type = "done"
        THEN [next EXCEPT !.downloads = @ + 1, !.destroyed = @ + 1, !.terminated = @ + 1]
        ELSE IF m.type = "error"
        THEN [next EXCEPT !.destroyed = @ + 1, !.terminated = @ + 1]
        ELSE next

\* the next message of the worker reaches worker.onmessage
HandleMessage ==
    /\ pc = "encoded"
    /\ caller.handled < Len(posted)
    /\ caller' = handleMessage(caller, posted[caller.handled + 1], request.length)
    /\ UNCHANGED <<pc, vlqVars, inputVars, midiVars, tempoVars, mixVars, wavVars,
                   parser, samples, params>>

----------------------------------------------------------------------------
(* Specification SpecExportWav: one exportWav from the click to the last   *)
(* worker message, nothing else running                                    *)

\* sounding and dropped notes, one or two beats long
ExportNoteValues ==
    { Note(0, 69, 0, BeatDen, 100), Note(0, 109, 0, 2 * BeatDen, 100),
      Note(1, 60, BeatDen, BeatDen, 127) }

\* a note without a sample that lasts LongLength samples at 120 bpm
LongNote == Note(0, 109, 0, (2 * BeatDen * LongLength) \div SampleRate, 100)

InitExportWav ==
    /\ pc = "export"
    /\ \/ /\ notes \in SeqsUpTo(ExportNoteValues, MaxRenderNotes)
          /\ beats \in SeqsUpTo(RenderBeatValues, 1)
          /\ bpms \in RenderTempoMaps
          /\ bpmsOrder \in Orders(DOMAIN bpms)
          /\ playbackSpeed \in {Rat(1, 1), Rat(2, 1)}
          /\ blockSize \in {2, RenderBlockSize}
       \/ /\ notes = <<LongNote>>
          /\ beats = <<>>
          /\ bpms = <<>> /\ bpmsOrder = <<>>
          /\ playbackSpeed = Rat(1, 1)
          /\ blockSize \in {1024, RenderBlockSize}
    /\ bpm = 120
    /\ samples \in RenderSamples
    /\ params = None /\ caller = None
    /\ startBeat = 0 /\ lengthBeats = 0 /\ seconds = None
    /\ noteInfos = <<>> /\ beatInfos = <<>> /\ totalSamples = 0
    /\ blockStart = 0 /\ outputs = <<>>
    /\ value = 0 /\ vlq = <<>> /\ decoded = None
    /\ ticksPerQuarter = 480
    /\ midiFile = None /\ data = <<>> /\ logical = None /\ parsed = None /\ result = None
    /\ WavIdle /\ ParserIdle

NextExportWav ==
    \/ ExportWav \/ MixBlockReport \/ ReturnBuffer
    \/ PostEncode \/ Encode \/ EncodeAllocationFails \/ HandleMessage

SpecExportWav == InitExportWav /\ [][NextExportWav]_vars

----------------------------------------------------------------------------
(* Progress and teardown of one exportWav                                  *)

Last(s) == s[Len(s)]

\* C25: the render reports once after every block, with strictly increasing
\* samplesProcessed that end at totalSamples (a render of no samples has no
\* block and reports nothing); the percentages passed to the
\* progress dialog never decrease, lie within 0..100, are at most 90 while
\* mixing and at least 90 while encoding, and are at 100 by the time the
\* 'done' message is handled
ExportProgressMonotone ==
    (caller # None /\ pc \in {"mix", "mixed", "request", "encoded"}) =>
        LET r == caller.reports
            u == caller.updates
        IN  /\ Len(r) * blockSize = blockStart
            /\ \A k \in 1..(Len(r) - 1) : r[k] < r[k + 1]
            /\ (totalSamples > 0 /\ (pc # "mix" \/ blockStart >= totalSamples)) =>
                   (Len(r) >= 1 /\ Last(r) = totalSamples)
            /\ \A k \in 1..Len(u) : RatLE(Zero, u[k]) /\ RatLE(u[k], Rat(100, 1))
            /\ \A k \in 1..(Len(u) - 1) : RatLE(u[k], u[k + 1])
            /\ \A k \in 1..Len(u) :
                   IF k <= Len(r) THEN RatLE(u[k], Rat(90, 1))
                                  ELSE RatLE(Rat(90, 1), u[k])
            /\ (/\ pc = "encoded"
                /\ \E k \in 1..Len(posted) :
                       posted[k].type = "done" /\ k <= caller.handled + 1)
                   => SameRational(Last(u), Rat(100, 1))

\* an export of several blocks whose encode reported progress several times
\* and whose 'done' has been handled
ExportProgressMonotoneWitness ==
    /\ pc = "encoded"
    /\ caller.downloads = 1
    /\ Len(caller.reports) = 3
    /\ Len(caller.updates) >= Len(caller.reports) + 4
    /\ SameRational(Last(caller.updates), Rat(100, 1))

\* a terminal message is among the worker messages handled so far
TerminalHandled == \E k \in 1..caller.handled : IsTerminal(posted[k])

\* C26: handling 'done' or 'error' closes the dialog and terminates the
\* worker, each exactly once per export; 'done' makes exactly one download
\* and 'error' none; no message is handled after the worker is terminated
TeardownOnce ==
    (caller # None /\ pc = "encoded") =>
        /\ caller.destroyed = (IF TerminalHandled THEN 1 ELSE 0)
        /\ caller.terminated = (IF TerminalHandled THEN 1 ELSE 0)
        /\ caller.downloads =
               (IF \E k \in 1..caller.handled : posted[k].type = "done" THEN 1 ELSE 0)
        /\ \A k \in 1..(caller.handled - 1) : ~IsTerminal(posted[k])

\* an export whose worker failed, after the 'error' message was handled
TeardownOnceWitness ==
    /\ pc = "encoded"
    /\ caller.handled = Len(posted)
    /\ Last(posted).type = "error"
    /\ caller.destroyed = 1 /\ caller.terminated = 1 /\ caller.downloads = 0

----------------------------------------------------------------------------
(* Specification SpecRoundTrip: midiToSequencer applied to the MidiFile    *)
(* sequencerToMidi returns, for timelines without overlapping notes        *)

\* MidiConverter.midiToSequencer(midiFile) on the file sequencerToMidi made
MidiToSequencerOfExport ==
    /\ pc = "file"
    /\ result' = midiToSequencer(midiFile)
    /\ pc' = "roundTrip"
    /\ UNCHANGED <<vlqVars, inputVars, midiFile, data, logical, parsed,
                   tempoVars, mixVars, wavVars, parser, exportVars>>

\* notes of a quarter and of half a beat that touch, repeat a pitch on two
\* tracks or lie at the ends of the ranges
RoundTripNoteValues ==
    {Note(t, 60, s, l, 100) : t \in {0, 1}, s \in {0, 2}, l \in {1, 2}}
        \cup {Note(15, 127, 0, 4, 1), Note(0, 0, 4, 2, 127)}

RoundTripBeatValues == {Beat(t, p, 100) : t \in {0, 1}, p \in {0, 3}}

\* two notes of one track and pitch that sound at the same time
Overlap(a, b) ==
    /\ a.track = b.track /\ a.pitch = b.pitch
    /\ a.start < b.start + b.length
    /\ b.start < a.start + a.length

\* the timelines of the round trip: track 0..15 but 9, pitch 0..127, velocity
\* 1..127, length at least 0.1 beats, no two notes overlapping
NoOverlap(ns) ==
    /\ \A i \in 1..Len(ns) :
           /\ ns[i].track \in 0..15 /\ ns[i].track # 9
           /\ ns[i].pitch \in 0..127 /\ ns[i].velocity \in 1..127
           /\ ns[i].start >= 0 /\ 10 * ns[i].length >= BeatDen
    /\ \A i \in 1..Len(ns) : \A j \in 1..Len(ns) : i # j => ~Overlap(ns[i], ns[j])

InitRoundTrip ==
    /\ pc = "input"
    /\ notes \in SeqsUpTo(RoundTripNoteValues, MaxNotes)
    /\ NoOverlap(notes)
    /\ beats \in SeqsUpTo(RoundTripBeatValues, MaxBeats + 1)
    /\ bpm = 120
    /\ ticksPerQuarter \in {8, 480}
    /\ value = 0 /\ vlq = <<>> /\ decoded = None
    /\ midiFile = None /\ data = <<>> /\ logical = None /\ parsed = None /\ result = None
    /\ TempoIdle /\ MixIdle /\ WavIdle /\ ParserIdle /\ ExportIdle

NextRoundTrip == SequencerToMidi \/ MidiToSequencerOfExport

SpecRoundTrip == InitRoundTrip /\ [][NextRoundTrip]_vars

\* an imported note is the note n of the timeline
SameNote(r, n) ==
    /\ r.track = n.track /\ r.pitch = n.pitch /\ r.velocity = n.velocity
    /\ SameRational(r.start, Rat(n.start, BeatDen))
    /\ SameRational(r.length, Rat(n.length, BeatDen))

\* an imported beat is the beat b of the timeline
SameBeat(r, b) ==
    /\ r.track = b.track /\ r.velocity = b.velocity
    /\ SameRational(r.position, Rat(b.position, BeatDen))

\* C29: midiToSequencer(sequencerToMidi(notes, beats, bpm, ticksPerQuarter))
\* returns the same multiset of notes and of beats, for every list of notes
\* without overlap on a track and pitch and every list of beats
RoundTripPreservesTimeline ==
    pc = "roundTrip" =>
        /\ Len(result.notes) = Len(notes)
        /\ \A k \in 1..Len(notes) :
               Cardinality({i \in 1..Len(result.notes) : SameNote(result.notes[i], notes[k])})
                   = Count(notes[k], notes)
        /\ Len(result.beats) = Len(beats)
        /\ \A k \in 1..Len(beats) :
               Cardinality({i \in 1..Len(result.beats) : SameBeat(result.beats[i], beats[k])})
                   = Count(beats[k], beats)

====
